---------------------------- MODULE Spec2Model ----------------------------
(***************************************************************************)
(* Transit prediction and classification engine of flymoon: the tier      *)
(* classifier and closest-approach scan (src/src/transit.py), the result  *)
(* ordering (src/src/flight_data.py), the adaptive poll interval          *)
(* (src/app.py), the flight-data cache (src/src/flight_cache.py) and the  *)
(* orchestrator get_transits (src/src/transit.py).                        *)
(*                                                                         *)
(* Angles are fixed-point integers, DEG units to the degree, fine enough  *)
(* that round(x, 3) and round(x, 2) are proper roundings.  An angular     *)
(* separation sqrt(a^2 + z^2) is carried as its square, an exact two-limb *)
(* number <<hi, lo>> = hi * LIMB^2 + lo; squaring is strictly monotone on *)
(* non-negative numbers, so every comparison of separations is exact.     *)
(***************************************************************************)
EXTENDS Integers, Sequences, FiniteSets, TLC

\* ------------------------------------------------------------------------
\* Fixed-point angles
\* ------------------------------------------------------------------------

\* units per 0.001 degree, per 0.01 degree and per degree
MILLI == 2 * 2
CENTI == 10 * MILLI
DEG == 100 * CENTI

\* units per degree of latitude and longitude
GEO == 100 * 1000

\* base of the limbs of a squared separation
LIMB == 10 * 100

Abs(x) == IF x < 0 THEN -x ELSE x

\* Python round(x, n) for x in units and a quantum q of 10^-n degrees:
\* to the nearest multiple of q, a tie to the even multiple.
RoundTo(x, q) ==
    LET f == x \div q
        r == x % q
    IN  IF 2 * r < q THEN f * q
        ELSE IF 2 * r > q THEN (f + 1) * q
        ELSE IF f % 2 = 0 THEN f * q ELSE (f + 1) * q

round3(x) == RoundTo(x, MILLI)
round2(x) == RoundTo(x, CENTI)

\* x^2 for x >= 0 as <<hi, lo>> with value hi * LIMB^2 + lo, 0 <= lo < LIMB^2
Square(x) ==
    LET xh == x \div LIMB
        xl == x % LIMB
        c  == 2 * xh * xl
        l  == (c % LIMB) * LIMB + xl * xl
    IN  << xh * xh + (c \div LIMB) + (l \div (LIMB * LIMB)), l % (LIMB * LIMB) >>

SepLess(s, t) == s[1] < t[1] \/ (s[1] = t[1] /\ s[2] < t[2])
SepLeq(s, t) == ~ SepLess(t, s)

\* float("inf"): above every separation of two directions on the sphere
Infinity == Square(1000 * DEG)

\* ------------------------------------------------------------------------
\* Classification (src/src/transit.py, src/src/constants.py)
\* ------------------------------------------------------------------------

UNLIKELY == 0
LOW == 1
MEDIUM == 2
HIGH == 3

\* band edges and reporting gate, in degrees
HIGH_MAX_DEG == 1
MEDIUM_MAX_DEG == 2
LOW_MAX_DEG == 6
GATE_DEG == 6

\* the separation taken from the altitude difference alone
calculate_angular_separation_alt_only(alt_diff, az_diff) == Square(Abs(alt_diff))

\* np.sqrt(alt_diff**2 + az_diff**2), carried squared
calculate_angular_separation(alt_diff, az_diff) ==
    LET a == Square(Abs(alt_diff))
        z == Square(Abs(az_diff))
        l == a[2] + z[2]
    IN  << a[1] + z[1] + (l \div (LIMB * LIMB)), l % (LIMB * LIMB) >>

\* the separation of d units, for comparing a separation with a literal
SepOf(d) == Square(d)

get_possibility_level_strict(angular_separation) ==
    IF SepLess(angular_separation, SepOf(HIGH_MAX_DEG * DEG)) THEN HIGH
    ELSE IF SepLess(angular_separation, SepOf(MEDIUM_MAX_DEG * DEG)) THEN MEDIUM
    ELSE IF SepLess(angular_separation, SepOf(LOW_MAX_DEG * DEG)) THEN LOW
    ELSE UNLIKELY

get_possibility_level(angular_separation) ==
    IF SepLeq(angular_separation, SepOf(HIGH_MAX_DEG * DEG)) THEN HIGH
    ELSE IF SepLeq(angular_separation, SepOf(MEDIUM_MAX_DEG * DEG)) THEN MEDIUM
    ELSE IF SepLeq(angular_separation, SepOf(LOW_MAX_DEG * DEG)) THEN LOW
    ELSE UNLIKELY

\* ------------------------------------------------------------------------
\* Closest-approach scan: helpers of check_transit (src/src/transit.py)
\* ------------------------------------------------------------------------

\* Python None in a field whose real values are >= 0
None == 0 - 1

\* units per 0.001 minute and per minute of a "time" field
MINUTE == 10 * 100

NUM_SECONDS_PER_MIN == 60
INTERVAL_IN_SECS == 1
TOP_MINUTE == 15

\* idx % 60 == 0: the target is re-read every 60 samples
TARGET_REFRESH == 60

\* no_decreasing_count >= 180: the scan stops
NO_DECREASE_LIMIT == 180

FULL_CIRCLE == 360 * DEG

\* np.linspace(0, span, n) as the pair of its two arguments; the window of
\* get_transits
window_time == [ span |-> TOP_MINUTE,
                 n |-> TOP_MINUTE * (NUM_SECONDS_PER_MIN \div INTERVAL_IN_SECS) ]

\* int(minute) for the idx-th sample of the window
IntMinute(w, idx) == IF w.n = 1 THEN 0 ELSE (w.span * idx) \div (w.n - 1)

\* round(float(minute), 3) for the idx-th sample, in units of 0.001 minute
RoundedMinute(w, idx) ==
    IF w.n = 1 THEN 0
    ELSE RoundTo(w.span * MINUTE * idx, w.n - 1) \div (w.n - 1)

\* predict_position followed by geographic_to_altaz: where the observer sees
\* the aircraft after the idx-th sample's minutes.  The flight carries its
\* track across the sky: a start direction and a rate per minute; azimuth
\* is reported in [0, 360).
plane_altaz(flight, w, idx) ==
    LET t == RoundedMinute(w, idx)
    IN  [ alt |-> flight.alt0 + ((flight.dalt * t) \div MINUTE),
          az  |-> (flight.az0 + ((flight.daz * t) \div MINUTE)) % FULL_CIRCLE ]

\* CelestialObject.update_position: the target's direction a whole number
\* of minutes after the reference instant
update_position(target, minutes) ==
    [ alt |-> target.alt0 + target.dalt * minutes,
      az  |-> (target.az0 + target.daz * minutes) % FULL_CIRCLE ]

\* 1 if angular_sep <= 6.0 else 0
is_possible_transit_wide(angular_sep) ==
    IF SepLeq(angular_sep, SepOf((GATE_DEG + 1) * DEG)) THEN 1 ELSE 0

is_possible_transit(angular_sep) ==
    IF SepLeq(angular_sep, SepOf(GATE_DEG * DEG)) THEN 1 ELSE 0

\* response is None
NoResponse ==
    [ id |-> None, alt_diff |-> 0, az_diff |-> 0, time |-> None,
      target_alt |-> 0, plane_alt |-> 0, target_az |-> 0, plane_az |-> 0,
      is_possible_transit |-> 0, possibility_level |-> UNLIKELY,
      target |-> "none", latitude |-> 0, longitude |-> 0 ]

\* the dictionary check_transit builds for a sample, with the fields the
\* orchestrator, the ordering and the poll interval read
Response(flight, target, alt_diff, az_diff, angular_sep, time, initial, plane) ==
    [ id |-> flight.id,
      alt_diff |-> round3(alt_diff),
      az_diff |-> round3(az_diff),
      time |-> time,
      target_alt |-> initial.alt,
      plane_alt |-> round2(plane.alt),
      target_az |-> initial.az,
      plane_az |-> round2(plane.az),
      is_possible_transit |-> is_possible_transit(angular_sep),
      possibility_level |-> get_possibility_level(angular_sep),
      target |-> target.name,
      latitude |-> flight.latitude,
      longitude |-> flight.longitude ]

\* the target's position rounded as check_transit keeps it
InitialTarget(tgt) == [ alt |-> round2(tgt.alt), az |-> round2(tgt.az) ]

\* no transit found, reported as zero minutes ahead
NoTransitFound_time_zero(flight, target, initial, current) ==
    [ id |-> flight.id,
      alt_diff |-> round3(Abs(current.alt - initial.alt)),
      az_diff |-> round3(Abs(current.az - initial.az)),
      time |-> 0,
      target_alt |-> initial.alt,
      plane_alt |-> round2(current.alt),
      target_az |-> initial.az,
      plane_az |-> round2(current.az),
      is_possible_transit |-> 0,
      possibility_level |-> UNLIKELY,
      target |-> target.name,
      latitude |-> flight.latitude,
      longitude |-> flight.longitude ]

\* the dictionary returned when no sample was recorded
NoTransitFound(flight, target, initial, current) ==
    [ id |-> flight.id,
      alt_diff |-> round3(Abs(current.alt - initial.alt)),
      az_diff |-> round3(Abs(current.az - initial.az)),
      time |-> None,
      target_alt |-> initial.alt,
      plane_alt |-> round2(current.alt),
      target_az |-> initial.az,
      plane_az |-> round2(current.az),
      is_possible_transit |-> 0,
      possibility_level |-> UNLIKELY,
      target |-> target.name,
      latitude |-> flight.latitude,
      longitude |-> flight.longitude ]

\* a recorded response that is not a possible transit, overwritten with the
\* current position
OverrideWithCurrent_keeps_time(response, initial, current) ==
    [ response EXCEPT
        !.plane_alt = round2(current.alt),
        !.plane_az = round2(current.az),
        !.alt_diff = round3(Abs(current.alt - initial.alt)),
        !.az_diff = round3(Abs(current.az - initial.az)) ]

OverrideWithCurrent(response, initial, current) ==
    [ response EXCEPT
        !.plane_alt = round2(current.alt),
        !.plane_az = round2(current.az),
        !.time = None,
        !.alt_diff = round3(Abs(current.alt - initial.alt)),
        !.az_diff = round3(Abs(current.az - initial.az)) ]

\* the target's position at the idx-th sample: as last re-read, or as it
\* was when check_transit was called
TargetAt(ephemeris, w, idx) ==
    IF idx < TARGET_REFRESH THEN update_position(ephemeris, 0)
    ELSE update_position(ephemeris,
                         IntMinute(w, idx - (idx % TARGET_REFRESH)))

\* angular_sep of the idx-th sample
SampleSep(flight, ephemeris, w, idx) ==
    LET future == plane_altaz(flight, w, idx)
        target == TargetAt(ephemeris, w, idx)
    IN  calculate_angular_separation(Abs(future.alt - target.alt),
                                     Abs(future.az - target.az))

\* the loop without its break, over the samples lo..hi: the least
\* angular_sep and the number of samples that have it
RECURSIVE FullScan(_, _, _, _, _)
FullScan(flight, ephemeris, w, lo, hi) ==
    IF lo = hi
    THEN [ min |-> SampleSep(flight, ephemeris, w, lo), count |-> 1 ]
    ELSE LET mid == (lo + hi) \div 2
             l == FullScan(flight, ephemeris, w, lo, mid)
             h == FullScan(flight, ephemeris, w, mid + 1, hi)
         IN  IF SepLess(l.min, h.min) THEN l
             ELSE IF SepLess(h.min, l.min) THEN h
             ELSE [ min |-> l.min, count |-> l.count + h.count ]

\* ------------------------------------------------------------------------
\* Orchestrator: helpers of get_transits (src/src/transit.py, src/src/astro.py)
\* ------------------------------------------------------------------------

\* float(os.getenv("MIN_TARGET_ALTITUDE", 15)), in degrees
MIN_TARGET_ALTITUDE == 15

\* min_altitude if min_altitude is not None else the configured default
MinAltitude(min_altitude) ==
    IF min_altitude # None THEN min_altitude ELSE MIN_TARGET_ALTITUDE * DEG

\* CelestialObject(name=..., observer_position=..., test_overrides=...): the
\* body of the given ephemeris, kept where test_overrides puts it when that
\* is given
CelestialObject(ephemeris, test_overrides) ==
    IF test_overrides = None THEN ephemeris
    ELSE [ ephemeris EXCEPT !.alt0 = test_overrides.altitude,
                            !.az0 = test_overrides.azimuth,
                            !.dalt = 0, !.daz = 0 ]

\* CelestialObject.get_coordinates
get_coordinates(position) ==
    [ altitude |-> round2(position.alt), azimuthal |-> round2(position.az) ]

\* coords["altitude"] >= MIN_ALTITUDE and is_clear
Trackable_strict(coords, min_alt, is_clear) ==
    coords.altitude > min_alt /\ is_clear

Trackable(coords, min_alt, is_clear) ==
    coords.altitude >= min_alt /\ is_clear

\* the targets a target_name stands for, in the order they are evaluated
RequestedTargets(target_name) ==
    IF target_name = "auto" THEN << "moon", "sun" >> ELSE << target_name >>

\* targets_to_check: the evaluated names that pass the test, in order
RECURSIVE SelectTrackable(_, _, _, _)
SelectTrackable(names, coords, min_alt, is_clear) ==
    IF names = << >> THEN << >>
    ELSE LET rest == SelectTrackable(Tail(names), coords, min_alt, is_clear)
         IN  IF Trackable(coords[Head(names)], min_alt, is_clear)
             THEN << Head(names) >> \o rest
             ELSE rest

\* area_bbox, the configured search area, as (lat_lower_left,
\* long_lower_left, lat_upper_right, long_upper_right)
area_bbox == << 33 * GEO, 0 - (118 * GEO), 34 * GEO, 0 - (117 * GEO) >>

\* custom_bbox is None
NoBBox == << >>

\* search_bbox: the custom bounding box if provided, else the configured one
search_bbox(custom_bbox) == IF custom_bbox # NoBBox THEN custom_bbox ELSE area_bbox

\* get_flight_data answering a failed fetch with no flights
get_flight_data_empty_on_failure(ok, feed) ==
    [ raised |-> FALSE, flights |-> IF ok THEN feed ELSE << >> ]

\* get_flight_data: the flights of the response when its status is OK, an
\* exception otherwise
get_flight_data(ok, feed) ==
    IF ok THEN [ raised |-> FALSE, flights |-> feed ]
    ELSE [ raised |-> TRUE, flights |-> << >> ]

\* if targets_to_check, taken whatever the list holds
NeedsFlightData_always(targets_to_check) == TRUE

\* if targets_to_check:
NeedsFlightData(targets_to_check) == targets_to_check # << >>

\* data.append(transit_result)
append_unless_listed(data, transit_result) ==
    IF \E i \in 1..Len(data) : data[i].id = transit_result.id THEN data
    ELSE Append(data, transit_result)

append(data, transit_result) == Append(data, transit_result)

\* ------------------------------------------------------------------------
\* Result ordering (src/src/flight_data.py)
\* ------------------------------------------------------------------------

\* the value sort_results gives a null time
NULL_TIME_SORT == 999

\* _custom_sort: the key tuple of one candidate
custom_sort_asc(a) ==
    << a.is_possible_transit,
       Abs(a.alt_diff) + Abs(a.az_diff),
       IF a.time # None THEN a.time ELSE NULL_TIME_SORT * MINUTE,
       a.id >>

custom_sort(a) ==
    << -(a.is_possible_transit),
       Abs(a.alt_diff) + Abs(a.az_diff),
       IF a.time # None THEN a.time ELSE NULL_TIME_SORT * MINUTE,
       a.id >>

\* Python's order on tuples of equal length
RECURSIVE TupleLess(_, _, _)
TupleLess(k, l, i) ==
    IF i > Len(k) THEN FALSE
    ELSE IF k[i] < l[i] THEN TRUE
    ELSE IF k[i] > l[i] THEN FALSE
    ELSE TupleLess(k, l, i + 1)

\* x put into the sorted list s after every element whose key is not greater
RECURSIVE InsertByKey(_, _)
InsertByKey(s, x) ==
    IF s = << >> THEN << x >>
    ELSE IF TupleLess(custom_sort(x), custom_sort(Head(s)), 1)
         THEN << x >> \o s
         ELSE << Head(s) >> \o InsertByKey(Tail(s), x)

\* sorted(data, key=_custom_sort): a stable sort by the key
RECURSIVE sort_results(_)
sort_results(data) ==
    IF data = << >> THEN << >>
    ELSE InsertByKey(sort_results(SubSeq(data, 1, Len(data) - 1)), data[Len(data)])

\* ------------------------------------------------------------------------
\* Adaptive poll interval (src/app.py)
\* ------------------------------------------------------------------------

INTERVAL_UNDER_2 == 30
INTERVAL_UNDER_5 == 60
INTERVAL_UNDER_10 == 120
INTERVAL_DEFAULT == 600

SeqMin(S) == CHOOSE m \in S : \A x \in S : m <= x

\* the "time" of the candidates taken as priority transits
priority_transits_with_low(flights) ==
    { flights[i].time : i \in { j \in 1..Len(flights) :
        /\ flights[j].is_possible_transit = 1
        /\ flights[j].possibility_level \in { HIGH, MEDIUM, LOW } } }

priority_transits(flights) ==
    { flights[i].time : i \in { j \in 1..Len(flights) :
        /\ flights[j].is_possible_transit = 1
        /\ flights[j].possibility_level \in { HIGH, MEDIUM } } }

calculate_adaptive_interval(flights) ==
    IF flights = << >> THEN INTERVAL_DEFAULT
    ELSE IF priority_transits(flights) = {} THEN INTERVAL_DEFAULT
    ELSE LET closest_transit_time == SeqMin(priority_transits(flights))
         IN  IF closest_transit_time < 2 * MINUTE THEN INTERVAL_UNDER_2
             ELSE IF closest_transit_time < 5 * MINUTE THEN INTERVAL_UNDER_5
             ELSE IF closest_transit_time < 10 * MINUTE THEN INTERVAL_UNDER_10
             ELSE INTERVAL_DEFAULT

\* ------------------------------------------------------------------------
\* Flight-data cache (src/src/flight_cache.py)
\* ------------------------------------------------------------------------

MAX_CACHE_SIZE == 100

\* ttl_seconds of the global instance _flight_cache
TTL_SECONDS == 600

\* bounding-box coordinates are in units of 0.00001 degree; a key keeps 4
\* decimals
KEY_QUANTUM == 2 * 5

\* _make_key: f"{bbox[0]:.4f},{bbox[1]:.4f},{bbox[2]:.4f},{bbox[3]:.4f}"
make_key(bbox) ==
    << RoundTo(bbox[1], KEY_QUANTUM), RoundTo(bbox[2], KEY_QUANTUM),
       RoundTo(bbox[3], KEY_QUANTUM), RoundTo(bbox[4], KEY_QUANTUM) >>

\* del d[key]
DictDel(d, key) == [ k \in (DOMAIN d) \ { key } |-> d[k] ]

\* d[key] = value
DictPut(d, key, value) ==
    [ k \in (DOMAIN d) \cup { key } |-> IF k = key THEN value ELSE d[k] ]

\* FlightDataCache.get with the entry's age tested by >=
FlightDataCache_get_early(cache, stats, bbox, now) ==
    LET key == make_key(bbox)
    IN  IF key \notin DOMAIN cache
        THEN [ cache |-> cache,
               stats |-> [ stats EXCEPT !.misses = @ + 1 ],
               ret |-> None ]
        ELSE IF now - cache[key].timestamp >= TTL_SECONDS
        THEN [ cache |-> DictDel(cache, key),
               stats |-> [ stats EXCEPT !.evictions = @ + 1, !.misses = @ + 1 ],
               ret |-> None ]
        ELSE [ cache |-> cache,
               stats |-> [ stats EXCEPT !.hits = @ + 1 ],
               ret |-> cache[key].data ]

\* FlightDataCache.get: the cache and counters after the call, and the value
\* returned
FlightDataCache_get(cache, stats, bbox, now) ==
    LET key == make_key(bbox)
    IN  IF key \notin DOMAIN cache
        THEN [ cache |-> cache,
               stats |-> [ stats EXCEPT !.misses = @ + 1 ],
               ret |-> None ]
        ELSE LET entry == cache[key]
                 age == now - entry.timestamp
             IN  IF age > TTL_SECONDS
                 THEN [ cache |-> DictDel(cache, key),
                        stats |-> [ stats EXCEPT !.evictions = @ + 1,
                                                 !.misses = @ + 1 ],
                        ret |-> None ]
                 ELSE [ cache |-> cache,
                        stats |-> [ stats EXCEPT !.hits = @ + 1 ],
                        ret |-> entry.data ]

\* FlightDataCache._cleanup_expired
cleanup_expired(cache, stats, now) ==
    LET expired_keys == { key \in DOMAIN cache :
                            now - cache[key].timestamp > TTL_SECONDS }
    IN  [ cache |-> [ k \in (DOMAIN cache) \ expired_keys |-> cache[k] ],
          stats |-> [ stats EXCEPT !.evictions = @ + Cardinality(expired_keys) ] ]

\* FlightDataCache.set counting a miss for the key it inserts
FlightDataCache_set_counting(cache, stats, bbox, data, now) ==
    [ cache |-> DictPut(cache, make_key(bbox), [ data |-> data, timestamp |-> now ]),
      stats |-> [ stats EXCEPT !.misses = @ + 1 ] ]

\* FlightDataCache.set
FlightDataCache_set(cache, stats, bbox, data, now) ==
    LET swept == IF Cardinality(DOMAIN cache) >= MAX_CACHE_SIZE
                 THEN cleanup_expired(cache, stats, now)
                 ELSE [ cache |-> cache, stats |-> stats ]
        key == make_key(bbox)
    IN  [ cache |-> DictPut(swept.cache, key, [ data |-> data, timestamp |-> now ]),
          stats |-> swept.stats ]

\* whether the cache holds an entry for the search area that has not expired
HoldsUnexpired(cache, bbox, now) ==
    /\ make_key(bbox) \in DOMAIN cache
    /\ now - cache[make_key(bbox)].timestamp <= TTL_SECONDS

\* FlightDataCache.clear
FlightDataCache_clear(cache) == [ k \in {} |-> cache[k] ]

\* ------------------------------------------------------------------------
\* State
\* ------------------------------------------------------------------------

VARIABLES
    cl_alt_diff,    \* classifier run: the altitude difference given
    cl_az_diff,     \* classifier run: the azimuth difference given
    cl_level,       \* classifier run: tier returned
    cl_pc,          \* classifier run: "call" before the call, "done" after
    so_data,        \* sort run: the candidate list given to sort_results
    so_result,      \* sort run: the list returned
    so_pc,          \* sort run: "call", "done"
    ai_flights,     \* interval run: the candidates given
    ai_result,      \* interval run: the interval returned, seconds
    ai_pc,          \* interval run: "call", "done"
    fc_cache,       \* FlightDataCache._cache: key -> [data, timestamp]
    fc_stats,       \* FlightDataCache._stats: hits, misses, evictions
    fc_now,         \* time.time(), seconds
    fc_calls,       \* calls made so far, by method
    fc_ticks,       \* clock advances so far
    fc_last,        \* the last call: method, key, time, value returned and
                    \* the key's presence and the counters before it
    fc_sets,        \* per key, the most recent set: its payload and time, and
                    \* whether clear was called since
    th_pc,          \* per request thread, the statement of get or set it is at
    th_call,        \* per request thread, the call it is in: method, key, data
    th_entry,       \* per request thread, get's local variable entry
    th_tmp,         \* per request thread, the counter value read by a += 1
    th_ret,         \* per request thread, the value its call returned
    th_error,       \* per request thread, the exception its call raised
    th_gets,        \* get calls that have returned or raised
    th_dels,        \* entries deleted from the cache as expired
    ct_pc,          \* check_transit: "call", "loop", "exit", "done"; "off"
    ct_flight,      \* check_transit's argument flight
    ct_ephemeris,   \* the ephemeris of the argument target
    ct_window,      \* check_transit's argument window_time
    ct_test_mode,   \* check_transit's argument test_mode
    ct_target,      \* target.altitude and target.azimuthal
    ct_initial,     \* initial_target_alt and initial_target_az
    ct_idx,         \* the loop index idx
    ct_min,         \* min_angular_sep
    ct_count,       \* no_decreasing_count
    ct_response,    \* response
    ct_sample,      \* the sample response was recorded at: index, aircraft
                    \* altitude, differences before rounding
    ct_seen,        \* of the samples compared so far: the highest tier
                    \* among those above the horizon and within the gate
    ct_result,      \* the dictionary returned
    gt_pc,          \* get_transits: "call", "fetch", "check", "return",
                    \* "done"; "off"
    gt_target_name, \* get_transits' argument target_name
    gt_min_altitude,\* get_transits' argument min_altitude
    gt_sky,         \* the ephemeris of each body
    gt_is_clear,    \* what the weather check reports
    gt_feed,        \* the flights the flight-data source reports
    gt_custom_bbox, \* get_transits' argument custom_bbox
    gt_failed,      \* whether the live fetch failed
    gt_cached,      \* whether the cache held an unexpired entry at the call
    gt_fetches,     \* calls of get_flight_data made
    gt_flight_data, \* flight_data
    gt_targets_to_check,     \* targets_to_check
    gt_target_coordinates,   \* target_coordinates
    gt_ti,          \* position of the target loop in targets_to_check
    gt_fi,          \* position of the flight loop in flight_data
    gt_data,        \* data
    gt_result,      \* the dictionary returned
    rq_pc,          \* request handlers: where the handler is
    rq_request,     \* the route and the parameters of the request
    rq_targets,     \* the targets the handler goes through
    rq_i,           \* position of the handler's target loop
    rq_fi,          \* recalculation: position of the flight loop
    rq_data,        \* recalculation: the candidates of the target at hand
    rq_all_flights, \* all_flights
    rq_tracking_targets,     \* tracking_targets
    rq_target_coordinates,   \* target_coordinates
    rq_response,    \* the response sent
    rq_prev,        \* the response sent to the request before
    rq_work         \* target lookups made for the request, and the fetches
                    \* made before it

clVars == << cl_alt_diff, cl_az_diff, cl_level, cl_pc >>
soVars == << so_data, so_result, so_pc >>
aiVars == << ai_flights, ai_result, ai_pc >>
fcVars == << fc_cache, fc_stats, fc_now, fc_calls, fc_ticks, fc_last, fc_sets >>

thVars == << th_pc, th_call, th_entry, th_tmp, th_ret, th_error, th_gets, th_dels >>

ctVars == << ct_pc, ct_flight, ct_ephemeris, ct_window, ct_test_mode, ct_target,
            ct_initial, ct_idx, ct_min, ct_count, ct_response, ct_sample,
            ct_seen, ct_result >>

gtVars == << gt_pc, gt_target_name, gt_min_altitude, gt_sky, gt_is_clear, gt_feed,
            gt_custom_bbox, gt_failed, gt_cached, gt_fetches, gt_flight_data, gt_targets_to_check,
            gt_target_coordinates, gt_ti, gt_fi, gt_data, gt_result >>

rqVars == << rq_pc, rq_request, rq_targets, rq_i, rq_fi, rq_data, rq_all_flights,
            rq_tracking_targets, rq_target_coordinates, rq_response, rq_prev,
            rq_work >>

vars == << clVars, soVars, aiVars, fcVars, thVars, ctVars, gtVars, rqVars >>

exceptClassify == << soVars, aiVars, fcVars, thVars, ctVars, gtVars, rqVars >>
exceptSort == << clVars, aiVars, fcVars, thVars, ctVars, gtVars, rqVars >>
exceptInterval == << clVars, soVars, fcVars, thVars, ctVars, gtVars, rqVars >>
exceptCache == << clVars, soVars, aiVars, thVars, ctVars, gtVars, rqVars >>
exceptThreads == << clVars, soVars, aiVars, ctVars, gtVars, rqVars >>
exceptScan == << clVars, soVars, aiVars, fcVars, thVars, gtVars, rqVars >>
exceptTransits == << clVars, soVars, aiVars, fcVars, thVars, rqVars >>
exceptRequests == << clVars, soVars, aiVars, fcVars, thVars >>

\* the components a specification does not run
ClassifyIdle ==
    /\ cl_alt_diff = 0
    /\ cl_az_diff = 0
    /\ cl_level = UNLIKELY
    /\ cl_pc = "off"

SortIdle ==
    /\ so_data = << >>
    /\ so_result = << >>
    /\ so_pc = "off"

IntervalIdle ==
    /\ ai_flights = << >>
    /\ ai_result = 0
    /\ ai_pc = "off"

\* the bounding boxes the model's callers ask for: the second differs from the
\* first beyond the fourth decimal only
BBoxes ==
    { << 33 * GEO, 0 - (118 * GEO), 34 * GEO, 0 - (117 * GEO) >>,
      << 33 * GEO + 4, 0 - (118 * GEO), 34 * GEO, 0 - (117 * GEO) >>,
      << 33 * GEO + (GEO \div 10), 0 - (118 * GEO), 34 * GEO, 0 - (117 * GEO) >> }

BBoxKeys == { make_key(b) : b \in BBoxes }

\* flight lists a fetch may return
Payloads == { 1, 2 }

NoCall == [ op |-> "none", key |-> << 0, 0, 0, 0 >>, at |-> 0, ret |-> None,
            held |-> FALSE,
            before |-> [ hits |-> 0, misses |-> 0, evictions |-> 0 ] ]

NoSet == [ known |-> FALSE, data |-> None, time |-> 0, cleared |-> FALSE ]

\* the cache after construction
EmptyCache == [ k \in {} |-> [ data |-> None, timestamp |-> 0 ] ]

CacheQuiet ==
    /\ fc_stats = [ hits |-> 0, misses |-> 0, evictions |-> 0 ]
    /\ fc_now = 0
    /\ fc_calls = [ get |-> 0, set |-> 0, clear |-> 0 ]
    /\ fc_ticks = 0
    /\ fc_last = NoCall
    /\ fc_sets = [ k \in BBoxKeys |-> NoSet ]

CacheIdle ==
    /\ fc_cache = EmptyCache
    /\ CacheQuiet

\* request threads of the server
Threads == { 1, 2 }

NoEntry == [ data |-> None, timestamp |-> 0 ]

ThreadsIdle ==
    /\ th_pc = [ t \in Threads |-> "off" ]
    /\ th_call = [ t \in Threads |-> [ op |-> "none", key |-> << 0, 0, 0, 0 >>,
                                       data |-> None ] ]
    /\ th_entry = [ t \in Threads |-> NoEntry ]
    /\ th_tmp = [ t \in Threads |-> 0 ]
    /\ th_ret = [ t \in Threads |-> None ]
    /\ th_error = [ t \in Threads |-> "none" ]
    /\ th_gets = 0
    /\ th_dels = 0

NoSample == [ idx |-> None, alt |-> 0, alt_diff |-> 0, az_diff |-> 0 ]
NoneSeen == [ gated |-> None ]

\* the record of the samples compared, after one more sample
Seen(seen, alt, angular_sep) ==
    IF alt > 0 /\ SepLeq(angular_sep, SepOf(GATE_DEG * DEG))
    THEN [ seen EXCEPT !.gated =
             IF get_possibility_level(angular_sep) > @
             THEN get_possibility_level(angular_sep) ELSE @ ]
    ELSE seen
NoFlight == [ id |-> None, latitude |-> 0, longitude |-> 0,
              alt0 |-> 0, az0 |-> 0, dalt |-> 0, daz |-> 0 ]
NoTarget == [ name |-> "none", alt0 |-> 0, az0 |-> 0, dalt |-> 0, daz |-> 0 ]

ScanIdle ==
    /\ ct_pc = "off"
    /\ ct_flight = NoFlight
    /\ ct_ephemeris = NoTarget
    /\ ct_window = window_time
    /\ ct_test_mode = FALSE
    /\ ct_target = [ alt |-> 0, az |-> 0 ]
    /\ ct_initial = [ alt |-> 0, az |-> 0 ]
    /\ ct_idx = 0
    /\ ct_min = Infinity
    /\ ct_count = 0
    /\ ct_response = NoResponse
    /\ ct_sample = NoSample
    /\ ct_seen = NoneSeen
    /\ ct_result = NoResponse

NoCoordinates == [ n \in {} |-> [ altitude |-> 0, azimuthal |-> 0 ] ]
NoResult == [ flights |-> << >>, targetCoordinates |-> NoCoordinates,
              trackingTargets |-> << >>, boundingBox |-> NoBBox ]

TransitsIdle ==
    /\ gt_pc = "off"
    /\ gt_target_name = "auto"
    /\ gt_min_altitude = None
    /\ gt_sky = [ n \in { "moon", "sun" } |-> NoTarget ]
    /\ gt_is_clear = TRUE
    /\ gt_feed = << >>
    /\ gt_custom_bbox = NoBBox
    /\ gt_failed = FALSE
    /\ gt_cached = FALSE
    /\ gt_fetches = 0
    /\ gt_flight_data = << >>
    /\ gt_targets_to_check = << >>
    /\ gt_target_coordinates = NoCoordinates
    /\ gt_ti = 0
    /\ gt_fi = 0
    /\ gt_data = << >>
    /\ gt_result = NoResult

NoRequest == [ route |-> "none", latitude |-> None, longitude |-> None,
               target |-> "auto", flights |-> << >> ]

NoAnswer == [ status |-> 0, error |-> FALSE, flights |-> << >>,
              targetCoordinates |-> NoCoordinates, trackingTargets |-> << >>,
              nextCheckInterval |-> None ]

RequestsIdle ==
    /\ rq_pc = "off"
    /\ rq_request = NoRequest
    /\ rq_targets = << >>
    /\ rq_i = 0
    /\ rq_fi = 0
    /\ rq_data = << >>
    /\ rq_all_flights = << >>
    /\ rq_tracking_targets = << >>
    /\ rq_target_coordinates = NoCoordinates
    /\ rq_response = NoAnswer
    /\ rq_prev = NoAnswer
    /\ rq_work = [ lookups |-> 0, fetches |-> 0 ]

\* every sequence over S of length at most n
SeqUpTo(S, n) == UNION { [1..k -> S] : k \in 0..n }

\* ------------------------------------------------------------------------
\* Classifier runs: get_possibility_level applied to a combined separation
\* ------------------------------------------------------------------------

\* differences around every band edge, with the 3-4-5 pairs that combine to
\* exactly 1.0, 2.0 and 6.0 degrees
ClassifyDiffs ==
    { 0, 1, (6 * DEG) \div 10, (8 * DEG) \div 10,
      DEG - 1, DEG, DEG + 1, DEG + CENTI,
      (12 * DEG) \div 10, (16 * DEG) \div 10,
      2 * DEG - 1, 2 * DEG, 2 * DEG + 1, 2 * DEG + CENTI,
      (36 * DEG) \div 10, (48 * DEG) \div 10,
      6 * DEG - 1, 6 * DEG, 6 * DEG + 1, 6 * DEG + CENTI, 7 * DEG }

ClassifyInit ==
    /\ cl_alt_diff \in ClassifyDiffs
    /\ cl_az_diff \in ClassifyDiffs
    /\ cl_level = UNLIKELY
    /\ cl_pc = "call"

Classify ==
    /\ cl_pc = "call"
    /\ cl_pc' = "done"
    /\ cl_level' = get_possibility_level(
                       calculate_angular_separation(cl_alt_diff, cl_az_diff))
    /\ UNCHANGED << cl_alt_diff, cl_az_diff, exceptClassify >>

InitClassify == ClassifyInit /\ SortIdle /\ IntervalIdle /\ CacheIdle /\ ThreadsIdle /\ ScanIdle /\ TransitsIdle /\ RequestsIdle
NextClassify == Classify
SpecClassify == InitClassify /\ [][NextClassify]_vars

\* ------------------------------------------------------------------------
\* Sort runs: sort_results applied to a candidate list
\* ------------------------------------------------------------------------

MaxSortLen == 3

\* the fields _custom_sort reads, over every combination of their cases:
\* two pairs of differences (1.2 and 0 degrees, 0.7 and 0.7 degrees), a null
\* and two real times, two aircraft ids
SortCandidates ==
    { [ id |-> i, alt_diff |-> d[1], az_diff |-> d[2], time |-> t,
        is_possible_transit |-> p ] :
        i \in 1..2,
        d \in { << DEG + (DEG \div 5), 0 >>,
                 << 7 * (DEG \div 10), 7 * (DEG \div 10) >> },
        t \in { None, MINUTE \div 2, 12 * MINUTE },
        p \in { 0, 1 } }

SortInit ==
    /\ so_data \in SeqUpTo(SortCandidates, MaxSortLen)
    /\ so_result = << >>
    /\ so_pc = "call"

SortResults ==
    /\ so_pc = "call"
    /\ so_pc' = "done"
    /\ so_result' = sort_results(so_data)
    /\ UNCHANGED << so_data, exceptSort >>

InitSort == SortInit /\ ClassifyIdle /\ IntervalIdle /\ CacheIdle /\ ThreadsIdle /\ ScanIdle /\ TransitsIdle /\ RequestsIdle
NextSort == SortResults
SpecSort == InitSort /\ [][NextSort]_vars

\* ------------------------------------------------------------------------
\* Interval runs: calculate_adaptive_interval applied to a candidate list
\* ------------------------------------------------------------------------

MaxIntervalLen == 2

\* the fields calculate_adaptive_interval reads, as check_transit fills them:
\* a possible transit has a tier of LOW or better and a time inside the
\* window, any other candidate is UNLIKELY with a null time
IntervalCandidates ==
    { [ is_possible_transit |-> 1, possibility_level |-> l, time |-> t ] :
        l \in { LOW, MEDIUM, HIGH },
        t \in { 0, 2 * MINUTE - 1, 2 * MINUTE, 5 * MINUTE - 1, 5 * MINUTE,
                10 * MINUTE - 1, 10 * MINUTE, 15 * MINUTE } }
    \cup { [ is_possible_transit |-> 0, possibility_level |-> UNLIKELY,
             time |-> None ] }

IntervalInit ==
    /\ ai_flights \in SeqUpTo(IntervalCandidates, MaxIntervalLen)
    /\ ai_result = 0
    /\ ai_pc = "call"

AdaptiveInterval ==
    /\ ai_pc = "call"
    /\ ai_pc' = "done"
    /\ ai_result' = calculate_adaptive_interval(ai_flights)
    /\ UNCHANGED << ai_flights, exceptInterval >>

InitInterval == IntervalInit /\ ClassifyIdle /\ SortIdle /\ CacheIdle /\ ThreadsIdle /\ ScanIdle /\ TransitsIdle /\ RequestsIdle
NextInterval == AdaptiveInterval
SpecInterval == InitInterval /\ [][NextInterval]_vars

\* ------------------------------------------------------------------------
\* Cache calls, one at a time: get, set, clear and the passing of time
\* ------------------------------------------------------------------------

MaxCalls == 3
MaxTicks == 2

\* the clock passes by a second or by the TTL
TickSteps == { 1, TTL_SECONDS }

\* MAX_CACHE_SIZE - 1 entries set at time 0 for other bounding boxes
FilledCache ==
    [ k \in { << i * KEY_QUANTUM, 0, 0, 0 >> : i \in 1..(MAX_CACHE_SIZE - 1) }
        |-> [ data |-> 1, timestamp |-> 0 ] ]

CacheInit ==
    /\ fc_cache \in { EmptyCache, FilledCache }
    /\ fc_stats = [ hits |-> 0, misses |-> 0, evictions |-> 0 ]
    /\ fc_now = 0
    /\ fc_calls = [ get |-> 0, set |-> 0, clear |-> 0 ]
    /\ fc_ticks = 0
    /\ fc_last = NoCall
    /\ fc_sets = [ k \in BBoxKeys |-> NoSet ]

CallsMade == fc_calls.get + fc_calls.set + fc_calls.clear

CallRecord(op, key, ret) ==
    [ op |-> op, key |-> key, at |-> fc_now, ret |-> ret,
      held |-> key \in DOMAIN fc_cache, before |-> fc_stats ]

Get(bbox) ==
    LET r == FlightDataCache_get(fc_cache, fc_stats, bbox, fc_now)
    IN  /\ CallsMade < MaxCalls
        /\ fc_cache' = r.cache
        /\ fc_stats' = r.stats
        /\ fc_calls' = [ fc_calls EXCEPT !.get = @ + 1 ]
        /\ fc_last' = CallRecord("get", make_key(bbox), r.ret)
        /\ UNCHANGED << fc_now, fc_ticks, fc_sets, exceptCache >>

Set(bbox, data) ==
    LET r == FlightDataCache_set(fc_cache, fc_stats, bbox, data, fc_now)
    IN  /\ CallsMade < MaxCalls
        /\ fc_cache' = r.cache
        /\ fc_stats' = r.stats
        /\ fc_calls' = [ fc_calls EXCEPT !.set = @ + 1 ]
        /\ fc_last' = CallRecord("set", make_key(bbox), None)
        /\ fc_sets' = [ fc_sets EXCEPT ![make_key(bbox)] =
                          [ known |-> TRUE, data |-> data, time |-> fc_now,
                            cleared |-> FALSE ] ]
        /\ UNCHANGED << fc_now, fc_ticks, exceptCache >>

Clear ==
    /\ CallsMade < MaxCalls
    /\ fc_cache' = FlightDataCache_clear(fc_cache)
    /\ fc_calls' = [ fc_calls EXCEPT !.clear = @ + 1 ]
    /\ fc_last' = CallRecord("clear", << 0, 0, 0, 0 >>, None)
    /\ fc_sets' = [ k \in BBoxKeys |-> [ fc_sets[k] EXCEPT !.cleared = TRUE ] ]
    /\ UNCHANGED << fc_stats, fc_now, fc_ticks, exceptCache >>

Tick(d) ==
    /\ fc_ticks < MaxTicks
    /\ fc_now' = fc_now + d
    /\ fc_ticks' = fc_ticks + 1
    /\ UNCHANGED << fc_cache, fc_stats, fc_calls, fc_last, fc_sets, exceptCache >>

InitCache == CacheInit /\ ClassifyIdle /\ SortIdle /\ IntervalIdle /\ ThreadsIdle /\ ScanIdle /\ TransitsIdle /\ RequestsIdle
NextCache ==
    \/ \E b \in BBoxes : Get(b)
    \/ \E b \in BBoxes, p \in Payloads : Set(b, p)
    \/ Clear
    \/ \E d \in TickSteps : Tick(d)
SpecCache == InitCache /\ [][NextCache]_vars

\* ------------------------------------------------------------------------
\* Cache calls from concurrent request threads.  The class takes no lock, so
\* the threads interleave between the statements of get and set; a counter
\* += 1 is a read of the counter followed by a write.
\* ------------------------------------------------------------------------

MaxThreadCalls == 2

\* the shared cache when the threads start: empty, or holding one entry set
\* at time 0 that is fresh (now = 0) or expired (now = TTL + 1)
ThreadsInit ==
    /\ fc_cache \in { EmptyCache,
                      [ k \in { make_key(b) : b \in { CHOOSE x \in BBoxes : TRUE } }
                          |-> [ data |-> 1, timestamp |-> 0 ] ] }
    /\ fc_now \in { 0, TTL_SECONDS + 1 }
    /\ fc_stats = [ hits |-> 0, misses |-> 0, evictions |-> 0 ]
    /\ fc_calls = [ get |-> 0, set |-> 0, clear |-> 0 ]
    /\ fc_ticks = 0
    /\ fc_last = NoCall
    /\ fc_sets = [ k \in BBoxKeys |-> NoSet ]
    /\ th_pc = [ t \in Threads |-> "idle" ]
    /\ th_call = [ t \in Threads |-> [ op |-> "none", key |-> << 0, 0, 0, 0 >>,
                                       data |-> None ] ]
    /\ th_entry = [ t \in Threads |-> NoEntry ]
    /\ th_tmp = [ t \in Threads |-> 0 ]
    /\ th_ret = [ t \in Threads |-> None ]
    /\ th_error = [ t \in Threads |-> "none" ]
    /\ th_gets = 0
    /\ th_dels = 0

ThreadFrame == << fc_now, fc_ticks, fc_last, fc_sets, exceptThreads >>

\* a request handler calls get: key = self._make_key(...)
ThreadCallGet(t, bbox) ==
    /\ th_pc[t] = "idle"
    /\ CallsMade < MaxThreadCalls
    /\ fc_calls' = [ fc_calls EXCEPT !.get = @ + 1 ]
    /\ th_call' = [ th_call EXCEPT ![t] =
                      [ op |-> "get", key |-> make_key(bbox), data |-> None ] ]
    /\ th_pc' = [ th_pc EXCEPT ![t] = "get_test_key" ]
    /\ UNCHANGED << fc_cache, fc_stats, th_entry, th_tmp, th_ret, th_error,
                    th_gets, th_dels, ThreadFrame >>

\* if key not in self._cache
GetTestKey(t) ==
    /\ th_pc[t] = "get_test_key"
    /\ th_pc' = [ th_pc EXCEPT ![t] =
                    IF th_call[t].key \notin DOMAIN fc_cache
                    THEN "get_miss_read" ELSE "get_entry" ]
    /\ UNCHANGED << fc_cache, fc_stats, fc_calls, th_call, th_entry, th_tmp,
                    th_ret, th_error, th_gets, th_dels, ThreadFrame >>

\* entry = self._cache[key]: KeyError if the key has gone
GetEntry(t) ==
    /\ th_pc[t] = "get_entry"
    /\ IF th_call[t].key \in DOMAIN fc_cache
       THEN /\ th_entry' = [ th_entry EXCEPT ![t] = fc_cache[th_call[t].key] ]
            /\ th_pc' = [ th_pc EXCEPT ![t] = "get_age" ]
            /\ UNCHANGED << th_error, th_gets >>
       ELSE /\ th_error' = [ th_error EXCEPT ![t] = "KeyError" ]
            /\ th_pc' = [ th_pc EXCEPT ![t] = "idle" ]
            /\ th_gets' = th_gets + 1
            /\ UNCHANGED th_entry
    /\ UNCHANGED << fc_cache, fc_stats, fc_calls, th_call, th_tmp, th_ret,
                    th_dels, ThreadFrame >>

\* age = time.time() - entry["timestamp"]; if age > self.ttl
GetAge(t) ==
    /\ th_pc[t] = "get_age"
    /\ th_pc' = [ th_pc EXCEPT ![t] =
                    IF fc_now - th_entry[t].timestamp > TTL_SECONDS
                    THEN "get_del" ELSE "get_hit_read" ]
    /\ UNCHANGED << fc_cache, fc_stats, fc_calls, th_call, th_entry, th_tmp,
                    th_ret, th_error, th_gets, th_dels, ThreadFrame >>

\* del self._cache[key]: KeyError if the key has gone
GetDel(t) ==
    /\ th_pc[t] = "get_del"
    /\ IF th_call[t].key \in DOMAIN fc_cache
       THEN /\ fc_cache' = DictDel(fc_cache, th_call[t].key)
            /\ th_dels' = th_dels + 1
            /\ th_pc' = [ th_pc EXCEPT ![t] = "get_evict_read" ]
            /\ UNCHANGED << th_error, th_gets >>
       ELSE /\ th_error' = [ th_error EXCEPT ![t] = "KeyError" ]
            /\ th_pc' = [ th_pc EXCEPT ![t] = "idle" ]
            /\ th_gets' = th_gets + 1
            /\ UNCHANGED << fc_cache, th_dels >>
    /\ UNCHANGED << fc_stats, fc_calls, th_call, th_entry, th_tmp, th_ret,
                    ThreadFrame >>

\* self._stats[...] += 1, first half: the counter is read
CounterRead(t) ==
    /\ th_pc[t] \in { "get_evict_read", "get_miss_read", "get_hit_read" }
    /\ th_tmp' = [ th_tmp EXCEPT ![t] =
                     CASE th_pc[t] = "get_evict_read" -> fc_stats.evictions
                       [] th_pc[t] = "get_miss_read" -> fc_stats.misses
                       [] OTHER -> fc_stats.hits ]
    /\ th_pc' = [ th_pc EXCEPT ![t] =
                    CASE th_pc[t] = "get_evict_read" -> "get_evict_write"
                      [] th_pc[t] = "get_miss_read" -> "get_miss_write"
                      [] OTHER -> "get_hit_write" ]
    /\ UNCHANGED << fc_cache, fc_stats, fc_calls, th_call, th_entry, th_ret,
                    th_error, th_gets, th_dels, ThreadFrame >>

\* self._stats["evictions"] += 1, second half
GetEvictWrite(t) ==
    /\ th_pc[t] = "get_evict_write"
    /\ fc_stats' = [ fc_stats EXCEPT !.evictions = th_tmp[t] + 1 ]
    /\ th_pc' = [ th_pc EXCEPT ![t] = "get_miss_read" ]
    /\ UNCHANGED << fc_cache, fc_calls, th_call, th_entry, th_tmp, th_ret,
                    th_error, th_gets, th_dels, ThreadFrame >>

\* self._stats["misses"] += 1, second half; return None
GetMissWrite(t) ==
    /\ th_pc[t] = "get_miss_write"
    /\ fc_stats' = [ fc_stats EXCEPT !.misses = th_tmp[t] + 1 ]
    /\ th_ret' = [ th_ret EXCEPT ![t] = None ]
    /\ th_pc' = [ th_pc EXCEPT ![t] = "idle" ]
    /\ th_gets' = th_gets + 1
    /\ UNCHANGED << fc_cache, fc_calls, th_call, th_entry, th_tmp, th_error,
                    th_dels, ThreadFrame >>

\* self._stats["hits"] += 1, second half; return entry["data"]
GetHitWrite(t) ==
    /\ th_pc[t] = "get_hit_write"
    /\ fc_stats' = [ fc_stats EXCEPT !.hits = th_tmp[t] + 1 ]
    /\ th_ret' = [ th_ret EXCEPT ![t] = th_entry[t].data ]
    /\ th_pc' = [ th_pc EXCEPT ![t] = "idle" ]
    /\ th_gets' = th_gets + 1
    /\ UNCHANGED << fc_cache, fc_calls, th_call, th_entry, th_tmp, th_error,
                    th_dels, ThreadFrame >>

\* a request handler calls set; the size test, and the sweep when it is due
ThreadCallSet(t, bbox, data) ==
    /\ th_pc[t] = "idle"
    /\ CallsMade < MaxThreadCalls
    /\ fc_calls' = [ fc_calls EXCEPT !.set = @ + 1 ]
    /\ th_call' = [ th_call EXCEPT ![t] =
                      [ op |-> "set", key |-> make_key(bbox), data |-> data ] ]
    /\ LET swept == IF Cardinality(DOMAIN fc_cache) >= MAX_CACHE_SIZE
                    THEN cleanup_expired(fc_cache, fc_stats, fc_now)
                    ELSE [ cache |-> fc_cache, stats |-> fc_stats ]
       IN  /\ fc_cache' = swept.cache
           /\ fc_stats' = swept.stats
           /\ th_dels' = th_dels + Cardinality(DOMAIN fc_cache)
                                 - Cardinality(DOMAIN swept.cache)
    /\ th_pc' = [ th_pc EXCEPT ![t] = "set_put" ]
    /\ UNCHANGED << th_entry, th_tmp, th_ret, th_error, th_gets, ThreadFrame >>

\* self._cache[key] = {"data": data, "timestamp": time.time()}
SetPut(t) ==
    /\ th_pc[t] = "set_put"
    /\ fc_cache' = DictPut(fc_cache, th_call[t].key,
                           [ data |-> th_call[t].data, timestamp |-> fc_now ])
    /\ th_pc' = [ th_pc EXCEPT ![t] = "idle" ]
    /\ UNCHANGED << fc_stats, fc_calls, th_call, th_entry, th_tmp, th_ret,
                    th_error, th_gets, th_dels, ThreadFrame >>

InitThreads == ThreadsInit /\ ClassifyIdle /\ SortIdle /\ IntervalIdle /\ ScanIdle /\ TransitsIdle /\ RequestsIdle
NextThreads ==
    \/ \E t \in Threads, b \in BBoxes : ThreadCallGet(t, b)
    \/ \E t \in Threads : GetTestKey(t)
    \/ \E t \in Threads : GetEntry(t)
    \/ \E t \in Threads : GetAge(t)
    \/ \E t \in Threads : GetDel(t)
    \/ \E t \in Threads : CounterRead(t)
    \/ \E t \in Threads : GetEvictWrite(t)
    \/ \E t \in Threads : GetMissWrite(t)
    \/ \E t \in Threads : GetHitWrite(t)
    \/ \E t \in Threads, b \in BBoxes, p \in Payloads : ThreadCallSet(t, b, p)
    \/ \E t \in Threads : SetPut(t)
SpecThreads == InitThreads /\ [][NextThreads]_vars

\* ------------------------------------------------------------------------
\* check_transit, one action per loop iteration
\* ------------------------------------------------------------------------

\* sky tracks of aircraft: start direction and rate per minute
ScanFlights ==
    { \* hanging a quarter of a millidegree over one degree above 40, 180
      [ id |-> 1, latitude |-> 33 * GEO + (GEO \div 2), longitude |-> 0 - (117 * GEO + 1),
        alt0 |-> 41 * DEG + 1, az0 |-> 180 * DEG, dalt |-> 0, daz |-> 0 ],
      \* climbing across 40, 180 five minutes ahead
      [ id |-> 2, latitude |-> 33 * GEO + (GEO \div 2), longitude |-> 0 - (117 * GEO + 1),
        alt0 |-> 38 * DEG + (DEG \div 2), az0 |-> 175 * DEG,
        dalt |-> 3 * (DEG \div 10), daz |-> DEG ],
      \* far from every target and going away
      [ id |-> 3, latitude |-> 35 * GEO, longitude |-> 0 - (117 * GEO + 1),
        alt0 |-> 10 * DEG, az0 |-> 90 * DEG, dalt |-> 0 - CENTI,
        daz |-> 0 - DEG ],
      \* under the horizon, rising and drifting east
      [ id |-> 4, latitude |-> 33 * GEO + (GEO \div 2), longitude |-> 0 - (117 * GEO + 1),
        alt0 |-> 0 - (DEG \div 2), az0 |-> DEG \div 2,
        dalt |-> DEG \div 5, daz |-> 3 * DEG ],
      \* west of north, crossing north two minutes ahead
      [ id |-> 5, latitude |-> 33 * GEO + (GEO \div 2), longitude |-> 0 - (117 * GEO + 1),
        alt0 |-> 3 * DEG, az0 |-> 359 * DEG, dalt |-> 0,
        daz |-> DEG \div 2 ],
      \* just over six degrees above 40, 180 and sinking past it
      [ id |-> 6, latitude |-> 33 * GEO + (GEO \div 2), longitude |-> 0 - (117 * GEO + 1),
        alt0 |-> 46 * DEG + 1, az0 |-> 180 * DEG,
        dalt |-> 0 - (2 * DEG), daz |-> 0 ],
      \* low, setting under the horizon
      [ id |-> 7, latitude |-> 33 * GEO + (GEO \div 2), longitude |-> 0 - (117 * GEO + 1),
        alt0 |-> DEG \div 2, az0 |-> 2 * DEG, dalt |-> 0 - (DEG \div 5),
        daz |-> 0 ],
      \* hanging six and a half degrees above 40, 180
      [ id |-> 8, latitude |-> 33 * GEO + (GEO \div 2), longitude |-> 0 - (117 * GEO + 1),
        alt0 |-> 46 * DEG + (DEG \div 2), az0 |-> 180 * DEG, dalt |-> 0,
        daz |-> 0 ],
      \* just under the horizon, coming up while it drifts east
      [ id |-> 9, latitude |-> 33 * GEO + (GEO \div 2), longitude |-> 0 - (117 * GEO + 1),
        alt0 |-> 0 - (DEG \div 4), az0 |-> DEG \div 2,
        dalt |-> DEG \div 2, daz |-> 3 * DEG ],
      \* west of north, crossing north four minutes ahead
      [ id |-> 10, latitude |-> 33 * GEO + (GEO \div 2), longitude |-> 0 - (117 * GEO + 1),
        alt0 |-> 3 * DEG, az0 |-> 359 * DEG, dalt |-> 0,
        daz |-> DEG \div 4 ],
      \* low in the north-east, setting while it closes on north
      [ id |-> 11, latitude |-> 33 * GEO + (GEO \div 2), longitude |-> 0 - (117 * GEO + 1),
        alt0 |-> DEG \div 5, az0 |-> 5 * DEG, dalt |-> 0 - (DEG \div 10),
        daz |-> 0 - DEG ] }

\* ephemerides of targets: direction at the reference instant and rate per
\* minute
ScanTargets ==
    { [ name |-> "sun", alt0 |-> 40 * DEG, az0 |-> 180 * DEG, dalt |-> 0, daz |-> 0 ],
      [ name |-> "sun", alt0 |-> 40 * DEG + 2 * MILLI, az0 |-> 180 * DEG,
        dalt |-> DEG \div 10, daz |-> DEG \div 4 ],
      [ name |-> "moon", alt0 |-> 3 * DEG + MILLI, az0 |-> DEG \div 2,
        dalt |-> 0 - CENTI, daz |-> DEG \div 5 ] }

\* the window of get_transits and the two-minute window of one reading a second
ScanWindows == { window_time, [ span |-> 2, n |-> 2 * NUM_SECONDS_PER_MIN + 1 ] }

ScanInit ==
    /\ ct_pc = "call"
    /\ ct_flight \in ScanFlights
    /\ ct_ephemeris \in ScanTargets
    /\ ct_window \in ScanWindows
    /\ ct_test_mode \in BOOLEAN
    /\ ct_target = update_position(ct_ephemeris, 0)
    /\ ct_initial = [ alt |-> 0, az |-> 0 ]
    /\ ct_idx = 0
    /\ ct_min = Infinity
    /\ ct_count = 0
    /\ ct_response = NoResponse
    /\ ct_sample = NoSample
    /\ ct_seen = NoneSeen
    /\ ct_result = NoResponse

\* geographic_to_altaz of the flight's reported position at ref_datetime
CurrentAltAz == plane_altaz(ct_flight, ct_window, 0)

\* the statements before the loop
CheckTransitEnter ==
    /\ ct_pc = "call"
    /\ LET initial == InitialTarget(ct_target)
           current == CurrentAltAz
           alt_diff == Abs(current.alt - ct_target.alt)
           az_diff == Abs(current.az - ct_target.az)
           angular_sep == calculate_angular_separation(alt_diff, az_diff)
       IN  /\ ct_initial' = initial
           /\ ct_min' = IF ct_test_mode THEN angular_sep ELSE Infinity
           /\ IF ct_test_mode /\ current.alt > 0
              THEN /\ ct_response' = Response(ct_flight, ct_ephemeris, alt_diff, az_diff,
                                              angular_sep, 0, initial, current)
                   /\ ct_sample' = [ idx |-> 0, alt |-> current.alt,
                                     alt_diff |-> alt_diff, az_diff |-> az_diff ]
              ELSE /\ ct_response' = NoResponse
                   /\ ct_sample' = NoSample
           /\ ct_seen' = IF ct_test_mode THEN Seen(NoneSeen, current.alt, angular_sep)
                         ELSE NoneSeen
    /\ ct_count' = 0
    /\ ct_idx' = 0
    /\ ct_pc' = "loop"
    /\ UNCHANGED << ct_flight, ct_ephemeris, ct_window, ct_test_mode, ct_target,
                    ct_result, exceptScan >>

\* the counter that is never reset
no_decreasing_count_never_reset(count, update_response) == count + 1

\* no_decreasing_count after a sample has been compared
no_decreasing_count(count, update_response) ==
    IF update_response THEN 0 ELSE count + 1

\* one iteration of the loop over window_time
ScanStep ==
    /\ ct_pc = "loop"
    /\ ct_idx < ct_window.n
    /\ LET future == plane_altaz(ct_flight, ct_window, ct_idx)
           target == IF ct_idx > 0 /\ ct_idx % TARGET_REFRESH = 0
                     THEN update_position(ct_ephemeris, IntMinute(ct_window, ct_idx))
                     ELSE ct_target
           alt_diff == Abs(future.alt - target.alt)
           az_diff == Abs(future.az - target.az)
           angular_sep == calculate_angular_separation(alt_diff, az_diff)
           update_response == SepLess(angular_sep, ct_min)
       IN  /\ ct_target' = target
           /\ IF ct_count >= NO_DECREASE_LIMIT
              THEN /\ ct_pc' = "exit"
                   /\ UNCHANGED << ct_idx, ct_min, ct_count, ct_response, ct_sample,
                                   ct_seen >>
              ELSE /\ ct_pc' = "loop"
                   /\ ct_idx' = ct_idx + 1
                   /\ ct_min' = IF update_response THEN angular_sep ELSE ct_min
                   /\ ct_count' = no_decreasing_count(ct_count, update_response)
                   /\ ct_seen' = Seen(ct_seen, future.alt, angular_sep)
                   /\ IF future.alt > 0 /\ update_response
                      THEN /\ ct_response' =
                                Response(ct_flight, ct_ephemeris, alt_diff, az_diff,
                                         angular_sep,
                                         RoundedMinute(ct_window, ct_idx),
                                         ct_initial, future)
                           /\ ct_sample' = [ idx |-> ct_idx, alt |-> future.alt,
                                             alt_diff |-> alt_diff,
                                             az_diff |-> az_diff ]
                      ELSE UNCHANGED << ct_response, ct_sample >>
    /\ UNCHANGED << ct_flight, ct_ephemeris, ct_window, ct_test_mode, ct_initial,
                    ct_result, exceptScan >>

\* the statements after the loop
CheckTransitReturn ==
    /\ ct_pc = "exit" \/ (ct_pc = "loop" /\ ct_idx = ct_window.n)
    /\ ct_result' =
         IF ct_response # NoResponse /\ ct_response.is_possible_transit = 0
         THEN OverrideWithCurrent(ct_response, ct_initial, CurrentAltAz)
         ELSE IF ct_response # NoResponse THEN ct_response
         ELSE NoTransitFound(ct_flight, ct_ephemeris, ct_initial, CurrentAltAz)
    /\ ct_pc' = "done"
    /\ UNCHANGED << ct_flight, ct_ephemeris, ct_window, ct_test_mode, ct_target,
                    ct_initial, ct_idx, ct_min, ct_count, ct_response, ct_sample,
                    ct_seen, exceptScan >>

InitScan == ScanInit /\ ClassifyIdle /\ SortIdle /\ IntervalIdle /\ CacheIdle
            /\ ThreadsIdle /\ TransitsIdle /\ RequestsIdle
NextScan == CheckTransitEnter \/ ScanStep \/ CheckTransitReturn
SpecScan == InitScan /\ [][NextScan]_vars

\* ------------------------------------------------------------------------
\* get_transits outside mock mode: the targets are evaluated, the flights
\* fetched once, and check_transit runs for every target and flight
\* ------------------------------------------------------------------------

MaxFeedLen == 2

\* the flights a feed can report
FeedFlights == { f \in ScanFlights : f.id \in { 1, 3 } }

\* where the sun and the moon can stand at the reference instant
SunEphemerides ==
    { [ name |-> "sun", alt0 |-> 5 * DEG, az0 |-> 180 * DEG, dalt |-> 0, daz |-> 0 ],
      [ name |-> "sun", alt0 |-> 15 * DEG - MILLI, az0 |-> 180 * DEG, dalt |-> 0,
        daz |-> 0 ],
      [ name |-> "sun", alt0 |-> 40 * DEG, az0 |-> 180 * DEG, dalt |-> 0, daz |-> 0 ] }

MoonEphemerides ==
    { [ name |-> "moon", alt0 |-> 40 * DEG, az0 |-> 180 * DEG, dalt |-> DEG \div 10,
        daz |-> DEG \div 4 ],
      [ name |-> "moon", alt0 |-> 15 * DEG, az0 |-> 120 * DEG, dalt |-> 0,
        daz |-> 0 ],
      [ name |-> "moon", alt0 |-> 10 * DEG, az0 |-> 120 * DEG, dalt |-> 0,
        daz |-> 0 ] }

\* a bounding box a caller supplies
CustomBBox == << 33 * GEO + (GEO \div 10), 0 - (118 * GEO), 34 * GEO, 0 - (117 * GEO) >>

\* the shared flight-data cache when get_transits is called: empty, or
\* holding a fresh entry for the search area
CacheAtCall(bbox) ==
    { EmptyCache,
      [ k \in { make_key(bbox) } |-> [ data |-> 1, timestamp |-> 0 ] ] }

TransitsInit ==
    /\ gt_pc = "call"
    /\ gt_target_name \in { "moon", "sun", "auto" }
    /\ gt_min_altitude \in { None, 5 * DEG }
    /\ gt_sky \in [ moon : MoonEphemerides, sun : SunEphemerides ]
    /\ gt_is_clear \in BOOLEAN
    /\ gt_feed \in SeqUpTo(FeedFlights, MaxFeedLen)
    /\ gt_custom_bbox \in { NoBBox, CustomBBox }
    /\ gt_failed = FALSE
    /\ gt_fetches = 0
    /\ gt_flight_data = << >>
    /\ gt_targets_to_check = << >>
    /\ gt_target_coordinates = NoCoordinates
    /\ gt_ti = 0
    /\ gt_fi = 0
    /\ gt_data = << >>
    /\ gt_result = NoResult

\* from the weather check to the end of the target evaluation
EvaluateTargets ==
    /\ gt_pc = "call"
    /\ LET names == RequestedTargets(gt_target_name)
           coords == [ n \in { names[i] : i \in 1..Len(names) } |->
                         get_coordinates(
                             update_position(CelestialObject(gt_sky[n], None), 0)) ]
       IN  /\ gt_target_coordinates' = coords
           /\ gt_targets_to_check' =
                SelectTrackable(names, coords, MinAltitude(gt_min_altitude),
                                gt_is_clear)
    /\ gt_pc' = "fetch"
    /\ UNCHANGED << gt_target_name, gt_min_altitude, gt_sky, gt_is_clear, gt_feed,
                    gt_custom_bbox, gt_failed, gt_cached,
                    gt_fetches, gt_flight_data, gt_ti, gt_fi, gt_data, gt_result,
                    ctVars, exceptTransits >>

\* if targets_to_check: the flight data is fetched once and parsed; a
\* failed fetch raises out of get_transits
FetchFlights(ok) ==
    /\ gt_pc = "fetch"
    /\ IF ~ NeedsFlightData(gt_targets_to_check)
       THEN /\ ok
            /\ gt_pc' = "return"
            /\ UNCHANGED << gt_fetches, gt_flight_data, gt_ti, gt_fi, gt_failed >>
       ELSE LET raw_flight_data == get_flight_data(ok, gt_feed)
            IN  /\ gt_fetches' = gt_fetches + 1
                /\ gt_failed' = ~ ok
                /\ IF ~ raw_flight_data.raised
                   THEN /\ gt_flight_data' = raw_flight_data.flights
                        /\ gt_ti' = 1
                        /\ gt_fi' = 1
                        /\ gt_pc' = IF raw_flight_data.flights = << >>
                                    THEN "return" ELSE "check"
                   ELSE /\ gt_pc' = "raised"
                        /\ UNCHANGED << gt_flight_data, gt_ti, gt_fi >>
    /\ UNCHANGED << gt_target_name, gt_min_altitude, gt_sky, gt_is_clear, gt_feed,
                    gt_custom_bbox, gt_cached, gt_targets_to_check,
                    gt_target_coordinates, gt_data, gt_result, ctVars,
                    exceptTransits >>

\* the target handed over where the previous flight's scan left it
position_at_call_as_left(celestial_obj, fi, left) ==
    IF fi = 1 THEN update_position(celestial_obj, 0) ELSE left

\* celestial_obj.update_position(ref_datetime=ref_datetime) before each
\* flight: the target as of the instant captured at the start of the call
position_at_call(celestial_obj, fi, left) == update_position(celestial_obj, 0)

\* celestial_obj.update_position(ref_datetime) and the call of check_transit
\* for the next flight of the next target
CallCheckTransit ==
    /\ gt_pc = "check"
    /\ ct_pc = "off"
    /\ LET celestial_obj ==
               CelestialObject(gt_sky[gt_targets_to_check[gt_ti]], None)
       IN  /\ ct_ephemeris' = celestial_obj
           /\ ct_target' = position_at_call(celestial_obj, gt_fi, ct_target)
    /\ ct_flight' = gt_flight_data[gt_fi]
    /\ ct_window' = window_time
    /\ ct_test_mode' = FALSE
    /\ ct_pc' = "call"
    /\ ct_initial' = [ alt |-> 0, az |-> 0 ]
    /\ ct_idx' = 0
    /\ ct_min' = Infinity
    /\ ct_count' = 0
    /\ ct_response' = NoResponse
    /\ ct_sample' = NoSample
    /\ ct_seen' = NoneSeen
    /\ ct_result' = NoResponse
    /\ UNCHANGED << gtVars, exceptTransits >>

\* data.append(transit_result) and the step of the two loops
AppendResult ==
    /\ gt_pc = "check"
    /\ ct_pc = "done"
    /\ gt_data' = append(gt_data, ct_result)
    /\ IF gt_fi < Len(gt_flight_data)
       THEN /\ gt_fi' = gt_fi + 1
            /\ UNCHANGED << gt_ti, gt_pc >>
       ELSE /\ gt_fi' = 1
            /\ gt_ti' = gt_ti + 1
            /\ gt_pc' = IF gt_ti < Len(gt_targets_to_check) THEN "check" ELSE "return"
    /\ ct_pc' = "off"
    /\ UNCHANGED << gt_target_name, gt_min_altitude, gt_sky, gt_is_clear, gt_feed,
                    gt_custom_bbox, gt_failed, gt_cached,
                    gt_fetches, gt_flight_data, gt_targets_to_check,
                    gt_target_coordinates, gt_result,
                    ct_flight, ct_ephemeris, ct_window, ct_test_mode, ct_target,
                    ct_initial, ct_idx, ct_min, ct_count, ct_response, ct_sample,
                    ct_seen, ct_result, exceptTransits >>

\* the dictionary get_transits returns
GetTransitsReturn ==
    /\ gt_pc = "return"
    /\ gt_result' = [ flights |-> gt_data,
                      targetCoordinates |-> gt_target_coordinates,
                      trackingTargets |-> gt_targets_to_check,
                      boundingBox |-> search_bbox(gt_custom_bbox) ]
    /\ gt_pc' = "done"
    /\ UNCHANGED << gt_target_name, gt_min_altitude, gt_sky, gt_is_clear, gt_feed,
                    gt_custom_bbox, gt_failed, gt_cached,
                    gt_fetches, gt_flight_data, gt_targets_to_check,
                    gt_target_coordinates, gt_ti, gt_fi, gt_data,
                    ctVars, exceptTransits >>

InitTransits ==
    /\ TransitsInit
    /\ ClassifyIdle /\ SortIdle /\ IntervalIdle /\ ThreadsIdle
    /\ fc_cache \in CacheAtCall(search_bbox(gt_custom_bbox))
    /\ CacheQuiet
    /\ gt_cached = HoldsUnexpired(fc_cache, search_bbox(gt_custom_bbox), fc_now)
    /\ ScanIdle
    /\ RequestsIdle
NextTransits ==
    \/ EvaluateTargets
    \/ \E ok \in BOOLEAN : FetchFlights(ok)
    \/ CallCheckTransit
    \/ CheckTransitEnter
    \/ ScanStep
    \/ CheckTransitReturn
    \/ AppendResult
    \/ GetTransitsReturn
SpecTransits == InitTransits /\ [][NextTransits]_vars

\* ------------------------------------------------------------------------
\* The /flights and /transits/recalculate routes (src/app.py): one /flights
\* request, then one /transits/recalculate request
\* ------------------------------------------------------------------------

\* observer coordinates a request may carry, None when the parameter is
\* missing
RequestLatitudes == { None, 33 * GEO + (GEO \div 2) }
RequestLongitudes == { None, 0 - (117 * GEO + (GEO \div 2)) }

\* the skies of the requests: each body high in the sky or low
RequestSuns ==
    { [ name |-> "sun", alt0 |-> 5 * DEG, az0 |-> 180 * DEG, dalt |-> 0, daz |-> 0 ],
      [ name |-> "sun", alt0 |-> 40 * DEG, az0 |-> 180 * DEG, dalt |-> 0, daz |-> 0 ] }
RequestMoons ==
    { [ name |-> "moon", alt0 |-> 15 * DEG, az0 |-> 120 * DEG, dalt |-> 0, daz |-> 0 ],
      [ name |-> "moon", alt0 |-> 10 * DEG, az0 |-> 120 * DEG, dalt |-> 0, daz |-> 0 ] }

\* the answers of the flight-data source
RequestFeeds ==
    LET f(n) == CHOOSE x \in ScanFlights : x.id = n
    IN  { << >>, << f(3) >>, << f(3), f(1) >> }

RequestsInit ==
    /\ rq_pc = "idle"
    /\ rq_request = NoRequest
    /\ rq_targets = << >>
    /\ rq_i = 0
    /\ rq_fi = 0
    /\ rq_data = << >>
    /\ rq_all_flights = << >>
    /\ rq_tracking_targets = << >>
    /\ rq_target_coordinates = NoCoordinates
    /\ rq_response = NoAnswer
    /\ rq_prev = NoAnswer
    /\ rq_work = [ lookups |-> 0, fetches |-> 0 ]
    /\ gt_pc = "off"
    /\ gt_target_name = "auto"
    /\ gt_min_altitude = None
    /\ gt_sky \in { [ n \in { "moon", "sun" } |-> IF n = "sun" THEN s ELSE m ] :
                     s \in RequestSuns, m \in RequestMoons }
    /\ gt_is_clear = TRUE
    /\ gt_feed \in RequestFeeds
    /\ gt_custom_bbox = NoBBox
    /\ gt_failed = FALSE
    /\ gt_cached = FALSE
    /\ gt_fetches = 0
    /\ gt_flight_data = << >>
    /\ gt_targets_to_check = << >>
    /\ gt_target_coordinates = NoCoordinates
    /\ gt_ti = 0
    /\ gt_fi = 0
    /\ gt_data = << >>
    /\ gt_result = NoResult

\* jsonify({"error": ...}), status
ErrorResponse(status) ==
    [ status |-> status, error |-> TRUE, flights |-> << >>,
      targetCoordinates |-> NoCoordinates, trackingTargets |-> << >>,
      nextCheckInterval |-> None ]

\* /transits/recalculate: jsonify({"flights": [], "targetCoordinates": {}}), 200
RecalculateRejected ==
    [ status |-> 200, error |-> FALSE, flights |-> << >>,
      targetCoordinates |-> NoCoordinates, trackingTargets |-> << >>,
      nextCheckInterval |-> None ]

\* coords["altitude"] >= min_altitude, min_altitude being 15 when the request
\* does not give it
AboveMinAltitude(coords) == coords.altitude >= MIN_TARGET_ALTITUDE * DEG

\* flight["target"] = target for each flight of the result
TagTarget(flights, target) ==
    [ i \in 1..Len(flights) |-> [ flights[i] EXCEPT !.target = target ] ]

\* the parameters get_transits takes from the call of the /flights route, the
\* two thresholds aside
BindGetTransits(target, custom_bbox) ==
    [ target_name |-> target, min_altitude |-> None, custom_bbox |-> custom_bbox ]

\* recalculate_transits(flights, ..., target_name, ...)["flights"]: the
\* candidates of the flights given, in the order of the result ordering
recalculate_transits(data) == sort_results(data)

\* what every step of a handler outside get_transits and check_transit
\* leaves alone
HandlerLeaves ==
    UNCHANGED << gt_sky, gt_is_clear, gt_feed, gt_cached, gt_fetches,
                 gt_flight_data, gt_targets_to_check, gt_target_coordinates,
                 gt_ti, gt_fi, gt_result, exceptRequests >>

\* /flights from the arrival of the request to the start of the target loop
FlightsRequest(latitude, longitude) ==
    /\ rq_pc = "idle"
    /\ rq_request' = [ route |-> "flights", latitude |-> latitude,
                       longitude |-> longitude, target |-> "auto",
                       flights |-> << >> ]
    /\ rq_work' = [ lookups |-> 0, fetches |-> gt_fetches ]
    /\ IF latitude = None \/ longitude = None
       THEN /\ rq_response' = ErrorResponse(400)
            /\ rq_pc' = "answered"
            /\ UNCHANGED rq_targets
       ELSE /\ rq_targets' = << "sun", "moon" >>
            /\ rq_pc' = "target"
            /\ UNCHANGED rq_response
    /\ rq_i' = 1
    /\ rq_all_flights' = << >>
    /\ rq_tracking_targets' = << >>
    /\ rq_target_coordinates' = NoCoordinates
    /\ UNCHANGED << rq_fi, rq_data, rq_prev, gt_pc, gt_target_name,
                    gt_min_altitude, gt_custom_bbox, gt_failed, gt_data, ctVars >>
    /\ HandlerLeaves

\* /flights: the coordinates of the next target, and the call of get_transits
\* when the target is high enough
FlightsNextTarget ==
    /\ rq_pc = "target"
    /\ rq_request.route = "flights"
    /\ rq_i <= Len(rq_targets)
    /\ LET target == rq_targets[rq_i]
           coords == get_coordinates(
                         update_position(CelestialObject(gt_sky[target], None), 0))
           call == BindGetTransits(target, NoBBox)
       IN  /\ rq_target_coordinates' = DictPut(rq_target_coordinates, target, coords)
           /\ rq_work' = [ rq_work EXCEPT !.lookups = @ + 1 ]
           /\ IF AboveMinAltitude(coords)
              THEN /\ rq_tracking_targets' = Append(rq_tracking_targets, target)
                   /\ gt_target_name' = call.target_name
                   /\ gt_min_altitude' = call.min_altitude
                   /\ gt_custom_bbox' = call.custom_bbox
                   /\ gt_failed' = FALSE
                   /\ gt_data' = << >>
                   /\ gt_pc' = "call"
                   /\ rq_pc' = "call"
                   /\ UNCHANGED rq_i
              ELSE /\ rq_i' = rq_i + 1
                   /\ UNCHANGED << rq_tracking_targets, gt_target_name,
                                   gt_min_altitude, gt_custom_bbox, gt_failed,
                                   gt_data, gt_pc, rq_pc >>
    /\ UNCHANGED << rq_request, rq_targets, rq_fi, rq_data, rq_all_flights,
                    rq_response, rq_prev, ctVars >>
    /\ HandlerLeaves

\* /flights: the flights of data are tagged and added to all_flights
FlightsCollect ==
    /\ rq_pc = "call"
    /\ gt_pc = "done"
    /\ rq_all_flights' = rq_all_flights \o TagTarget(gt_result.flights, rq_targets[rq_i])
    /\ rq_i' = rq_i + 1
    /\ rq_pc' = "target"
    /\ gt_pc' = "off"
    /\ UNCHANGED << rq_request, rq_targets, rq_fi, rq_data, rq_tracking_targets,
                    rq_target_coordinates, rq_response, rq_prev, rq_work,
                    gt_target_name, gt_min_altitude, gt_custom_bbox, gt_failed,
                    gt_data, ctVars >>
    /\ HandlerLeaves

\* /flights: except Exception, when get_transits raised
FlightsFail ==
    /\ rq_pc = "call"
    /\ gt_pc = "raised"
    /\ rq_response' = ErrorResponse(500)
    /\ rq_pc' = "answered"
    /\ gt_pc' = "off"
    /\ UNCHANGED << rq_request, rq_targets, rq_i, rq_fi, rq_data, rq_all_flights,
                    rq_tracking_targets, rq_target_coordinates, rq_prev, rq_work,
                    gt_target_name, gt_min_altitude, gt_custom_bbox, gt_failed,
                    gt_data, ctVars >>
    /\ HandlerLeaves

\* /flights: the interval, the sorted flights and the response
FlightsRespond ==
    /\ rq_pc = "target"
    /\ rq_request.route = "flights"
    /\ rq_i > Len(rq_targets)
    /\ rq_response' = [ status |-> 200, error |-> FALSE,
                        flights |-> sort_results(rq_all_flights),
                        targetCoordinates |-> rq_target_coordinates,
                        trackingTargets |-> rq_tracking_targets,
                        nextCheckInterval |->
                            calculate_adaptive_interval(rq_all_flights) ]
    /\ rq_pc' = "answered"
    /\ UNCHANGED << rq_request, rq_targets, rq_i, rq_fi, rq_data, rq_all_flights,
                    rq_tracking_targets, rq_target_coordinates, rq_prev, rq_work,
                    gt_pc, gt_target_name, gt_min_altitude, gt_custom_bbox,
                    gt_failed, gt_data, ctVars >>
    /\ HandlerLeaves

\* /transits/recalculate from the arrival of the request to the start of the
\* target loop
RecalculateRequest(latitude, longitude, target, flights) ==
    /\ rq_pc = "answered"
    /\ rq_request.route = "flights"
    /\ rq_prev' = rq_response
    /\ rq_request' = [ route |-> "recalculate", latitude |-> latitude,
                       longitude |-> longitude, target |-> target,
                       flights |-> flights ]
    /\ rq_work' = [ lookups |-> 0, fetches |-> gt_fetches ]
    /\ IF latitude = None \/ longitude = None \/ flights = << >>
       THEN /\ rq_response' = RecalculateRejected
            /\ rq_pc' = "answered"
            /\ UNCHANGED rq_targets
       ELSE /\ rq_targets' = IF target = "auto" THEN << "sun", "moon" >>
                                               ELSE << target >>
            /\ rq_pc' = "target"
            /\ rq_response' = NoAnswer
    /\ rq_i' = 1
    /\ rq_all_flights' = << >>
    /\ rq_tracking_targets' = << >>
    /\ rq_target_coordinates' = NoCoordinates
    /\ UNCHANGED << rq_fi, rq_data, gt_pc, gt_target_name, gt_min_altitude,
                    gt_custom_bbox, gt_failed, gt_data, ctVars >>
    /\ HandlerLeaves

\* /transits/recalculate: the coordinates of the next target, and the call of
\* recalculate_transits when the target is high enough
RecalculateNextTarget ==
    /\ rq_pc = "target"
    /\ rq_request.route = "recalculate"
    /\ rq_i <= Len(rq_targets)
    /\ LET target == rq_targets[rq_i]
           coords == get_coordinates(
                         update_position(CelestialObject(gt_sky[target], None), 0))
       IN  /\ rq_target_coordinates' = DictPut(rq_target_coordinates, target, coords)
           /\ rq_work' = [ rq_work EXCEPT !.lookups = @ + 1 ]
           /\ IF AboveMinAltitude(coords)
              THEN /\ rq_tracking_targets' = Append(rq_tracking_targets, target)
                   /\ rq_fi' = 1
                   /\ rq_data' = << >>
                   /\ rq_pc' = "search"
                   /\ UNCHANGED rq_i
              ELSE /\ rq_i' = rq_i + 1
                   /\ UNCHANGED << rq_tracking_targets, rq_fi, rq_data, rq_pc >>
    /\ UNCHANGED << rq_request, rq_targets, rq_all_flights, rq_response, rq_prev,
                    gt_pc, gt_target_name, gt_min_altitude, gt_custom_bbox,
                    gt_failed, gt_data, ctVars >>
    /\ HandlerLeaves

\* recalculate_transits: the call of check_transit for the next flight of
\* the list given
RecalculateCallCheck ==
    /\ rq_pc = "search"
    /\ ct_pc = "off"
    /\ rq_fi <= Len(rq_request.flights)
    /\ LET celestial_obj == CelestialObject(gt_sky[rq_targets[rq_i]], None)
       IN  /\ ct_ephemeris' = celestial_obj
           /\ ct_target' = update_position(celestial_obj, 0)
    /\ ct_flight' = rq_request.flights[rq_fi]
    /\ ct_window' = window_time
    /\ ct_test_mode' = FALSE
    /\ ct_pc' = "call"
    /\ ct_initial' = [ alt |-> 0, az |-> 0 ]
    /\ ct_idx' = 0
    /\ ct_min' = Infinity
    /\ ct_count' = 0
    /\ ct_response' = NoResponse
    /\ ct_sample' = NoSample
    /\ ct_seen' = NoneSeen
    /\ ct_result' = NoResponse
    /\ UNCHANGED << rqVars, gtVars, exceptRequests >>

\* recalculate_transits: the candidate is added to the list
RecalculateAppend ==
    /\ rq_pc = "search"
    /\ ct_pc = "done"
    /\ rq_data' = append(rq_data, ct_result)
    /\ rq_fi' = rq_fi + 1
    /\ ct_pc' = "off"
    /\ UNCHANGED << rq_pc, rq_request, rq_targets, rq_i, rq_all_flights,
                    rq_tracking_targets, rq_target_coordinates, rq_response,
                    rq_prev, rq_work, gtVars,
                    ct_flight, ct_ephemeris, ct_window, ct_test_mode, ct_target,
                    ct_initial, ct_idx, ct_min, ct_count, ct_response, ct_sample,
                    ct_seen, ct_result, exceptRequests >>

\* recalculate_transits returns its candidates sorted; the route tags them
\* and adds them to all_flights
RecalculateCollect ==
    /\ rq_pc = "search"
    /\ ct_pc = "off"
    /\ rq_fi > Len(rq_request.flights)
    /\ rq_all_flights' =
         rq_all_flights \o TagTarget(recalculate_transits(rq_data), rq_targets[rq_i])
    /\ rq_i' = rq_i + 1
    /\ rq_pc' = "target"
    /\ UNCHANGED << rq_request, rq_targets, rq_fi, rq_data, rq_tracking_targets,
                    rq_target_coordinates, rq_response, rq_prev, rq_work,
                    gtVars, ctVars, exceptRequests >>

\* /transits/recalculate: the response
RecalculateRespond ==
    /\ rq_pc = "target"
    /\ rq_request.route = "recalculate"
    /\ rq_i > Len(rq_targets)
    /\ rq_response' = [ status |-> 200, error |-> FALSE,
                        flights |-> rq_all_flights,
                        targetCoordinates |-> rq_target_coordinates,
                        trackingTargets |-> rq_tracking_targets,
                        nextCheckInterval |-> None ]
    /\ rq_pc' = "answered"
    /\ UNCHANGED << rq_request, rq_targets, rq_i, rq_fi, rq_data, rq_all_flights,
                    rq_tracking_targets, rq_target_coordinates, rq_prev, rq_work,
                    gtVars, ctVars, exceptRequests >>

InitRequests ==
    /\ RequestsInit
    /\ ClassifyIdle /\ SortIdle /\ IntervalIdle /\ CacheIdle /\ ThreadsIdle
    /\ ScanIdle
NextRequests ==
    \/ \E latitude \in RequestLatitudes, longitude \in RequestLongitudes :
         FlightsRequest(latitude, longitude)
    \/ FlightsNextTarget
    \/ EvaluateTargets
    \/ \E ok \in BOOLEAN : FetchFlights(ok)
    \/ CallCheckTransit
    \/ CheckTransitEnter
    \/ ScanStep
    \/ CheckTransitReturn
    \/ AppendResult
    \/ GetTransitsReturn
    \/ FlightsCollect
    \/ FlightsFail
    \/ FlightsRespond
    \/ \E latitude \in RequestLatitudes, longitude \in RequestLongitudes,
          target \in { "auto", "moon" }, flights \in { << >>, gt_feed } :
         RecalculateRequest(latitude, longitude, target, flights)
    \/ RecalculateNextTarget
    \/ RecalculateCallCheck
    \/ RecalculateAppend
    \/ RecalculateCollect
    \/ RecalculateRespond
SpecRequests == InitRequests /\ [][NextRequests]_vars

\* ------------------------------------------------------------------------
\* Properties
\* ------------------------------------------------------------------------

\* the combined separation of the classifier run is at most d units
ClWithin(d) == cl_alt_diff * cl_alt_diff + cl_az_diff * cl_az_diff <= d * d

Occurrences(s, c) == Cardinality({ i \in 1..Len(s) : s[i] = c })

\* a is ordered no later than b by the four sort criteria
C2_Ordered(a, b) ==
    LET ta == a.alt_diff + a.az_diff
        tb == b.alt_diff + b.az_diff
    IN  \/ a.is_possible_transit > b.is_possible_transit
        \/ /\ a.is_possible_transit = b.is_possible_transit
           /\ \/ ta < tb
              \/ /\ ta = tb
                 /\ \/ a.time # None /\ b.time = None
                    \/ a.time # None /\ b.time # None /\ a.time < b.time
                    \/ /\ a.time = b.time
                       /\ a.id <= b.id

\* C2: sort_results returns a permutation of its input ordered by
\* is_possible_transit descending, then alt_diff + az_diff ascending, then
\* minutes-to-approach ascending with a null time after any real time, then
\* aircraft id ascending.
C2_SortOrder ==
    so_pc = "done" =>
        /\ Len(so_result) = Len(so_data)
        /\ \A c \in SortCandidates :
               Occurrences(so_result, c) = Occurrences(so_data, c)
        /\ \A i \in 1..Len(so_result), j \in 1..Len(so_result) :
               i < j => C2_Ordered(so_result[i], so_result[j])

\* a list has been sorted in which a non-possible candidate came first and a
\* null time came before a real one
C2_Witness ==
    /\ so_pc = "done"
    /\ Len(so_data) = 3
    /\ so_data[1].is_possible_transit = 0
    /\ so_data[2].is_possible_transit = 1
    /\ so_data[3].is_possible_transit = 1
    /\ so_data[2].time = None
    /\ so_data[3].time # None
    /\ so_data[2].alt_diff + so_data[2].az_diff
           = so_data[3].alt_diff + so_data[3].az_diff
    /\ so_result # so_data

\* the times of the HIGH and MEDIUM possible transits of the interval run
C3_Times ==
    { ai_flights[i].time : i \in { j \in 1..Len(ai_flights) :
        /\ ai_flights[j].is_possible_transit = 1
        /\ ai_flights[j].possibility_level \in { HIGH, MEDIUM } } }

\* C3: calculate_adaptive_interval answers by the smallest
\* minutes-to-approach among the HIGH and MEDIUM possible transits: 30 s
\* below 2 min, 60 s below 5 min, 120 s below 10 min, else 600 s (exactly 2,
\* 5 and 10 min take the longer interval); with no HIGH or MEDIUM candidate
\* it answers 600 s whatever LOW candidates there are.
C3_AdaptiveInterval ==
    ai_pc = "done" =>
        /\ C3_Times = {} => ai_result = 600
        /\ C3_Times # {} =>
            /\ (\E t \in C3_Times : t < 2 * MINUTE) => ai_result = 30
            /\ /\ \A t \in C3_Times : t >= 2 * MINUTE
               /\ \E t \in C3_Times : t < 5 * MINUTE
               => ai_result = 60
            /\ /\ \A t \in C3_Times : t >= 5 * MINUTE
               /\ \E t \in C3_Times : t < 10 * MINUTE
               => ai_result = 120
            /\ (\A t \in C3_Times : t >= 10 * MINUTE) => ai_result = 600

\* a MEDIUM transit exactly 2 minutes out and a LOW one now: 60 s
C3_Witness ==
    /\ ai_pc = "done"
    /\ ai_result = 60
    /\ Len(ai_flights) = 2
    /\ ai_flights[1].possibility_level = LOW
    /\ ai_flights[1].time = 0
    /\ ai_flights[2].possibility_level = MEDIUM
    /\ ai_flights[2].time = 2 * MINUTE

\* the last call was a get for a key that has been set; h is that set
C4_GetAfterSet == fc_last.op = "get" /\ fc_sets[fc_last.key].known

\* a get later than the TTL after the set misses and leaves no entry; if it
\* found the entry it removed it and counted one eviction
C4_ExpiredMiss ==
    C4_GetAfterSet /\ fc_last.at - fc_sets[fc_last.key].time > TTL_SECONDS =>
        /\ fc_last.ret = None
        /\ fc_last.key \notin DOMAIN fc_cache
        /\ fc_last.held => fc_stats.evictions = fc_last.before.evictions + 1

\* an entry keeps the payload and the timestamp of the set that made it
C4_NoExtension ==
    \A k \in BBoxKeys \cap DOMAIN fc_cache :
        /\ fc_sets[k].known
        /\ fc_cache[k].timestamp = fc_sets[k].time
        /\ fc_cache[k].data = fc_sets[k].data

\* C4 as claimed: a get returns exactly the payload of the most recent set
\* for that key whenever the time elapsed since that set is within the TTL;
\* once it exceeds the TTL the get misses and removes the entry, counting one
\* eviction; a hit never extends the entry's lifetime.
C4_AsClaimed ==
    /\ C4_GetAfterSet /\ fc_last.at - fc_sets[fc_last.key].time <= TTL_SECONDS
           => fc_last.ret = fc_sets[fc_last.key].data
    /\ C4_ExpiredMiss
    /\ C4_NoExtension

\* C4 (amended): a get returns exactly the payload of the most recent set for
\* that key whenever the time elapsed since that set is within the TTL and
\* clear has not been called since that set; once the elapsed time exceeds
\* the TTL the get misses and the entry, if still held, is removed and
\* counted as one eviction; a hit never extends the entry's lifetime.
C4_GetWithinTTL ==
    /\ /\ C4_GetAfterSet
       /\ fc_last.at - fc_sets[fc_last.key].time <= TTL_SECONDS
       /\ ~ fc_sets[fc_last.key].cleared
       => fc_last.ret = fc_sets[fc_last.key].data
    /\ C4_ExpiredMiss
    /\ C4_NoExtension

\* a get exactly TTL seconds after the set of its key returned that payload,
\* after an earlier hit on the same entry
C4_Witness ==
    /\ C4_GetAfterSet
    /\ fc_last.at - fc_sets[fc_last.key].time = TTL_SECONDS
    /\ fc_last.ret = 2
    /\ fc_stats.hits = 2

\* C5: after any sequence of get, set and clear calls hits + misses equals
\* the number of get calls: every get increments exactly one of the two
\* counters, set and clear change neither.
C5_HitsPlusMisses ==
    /\ fc_stats.hits + fc_stats.misses = fc_calls.get
    /\ fc_last.op = "get" =>
        \/ /\ fc_stats.hits = fc_last.before.hits + 1
           /\ fc_stats.misses = fc_last.before.misses
        \/ /\ fc_stats.hits = fc_last.before.hits
           /\ fc_stats.misses = fc_last.before.misses + 1
    /\ fc_last.op \in { "set", "clear" } =>
        /\ fc_stats.hits = fc_last.before.hits
        /\ fc_stats.misses = fc_last.before.misses

\* a hit and a miss on an expired entry have been counted
C5_Witness ==
    /\ fc_calls.get = 2
    /\ fc_calls.set = 1
    /\ fc_stats.hits = 1
    /\ fc_stats.misses = 1
    /\ fc_stats.evictions = 1

\* C6: under every interleaving of concurrent get and set calls on the
\* shared cache each call behaves atomically: no call fails, no counter
\* increment is lost (hits + misses equals the number of completed gets)
\* and each expired entry is counted as evicted exactly once.
C6_AtomicCalls ==
    /\ \A t \in Threads : th_error[t] = "none"
    /\ (\A t \in Threads : th_pc[t] = "idle") =>
        /\ fc_stats.hits + fc_stats.misses = th_gets
        /\ fc_stats.evictions = th_dels

\* C9 as claimed: the tier of a returned candidate is the tier the bands
\* assign to the alt_diff and az_diff recorded in that candidate.
C9_TierOfRecorded ==
    ct_pc = "done" =>
        ct_result.possibility_level =
            get_possibility_level(
                calculate_angular_separation(ct_result.alt_diff, ct_result.az_diff))

\* C10: a returned candidate has is_possible_transit = 1 only if it was
\* recorded at a sample where the aircraft was above the horizon, and its
\* alt_diff and az_diff are both at most 6 degrees.
C10_GatedPositive ==
    (ct_pc = "done" /\ ct_result.is_possible_transit = 1) =>
        /\ ct_sample.idx # None
        /\ ct_sample.alt > 0
        /\ ct_sample.alt_diff <= GATE_DEG * DEG
        /\ ct_sample.az_diff <= GATE_DEG * DEG
        /\ ct_result.alt_diff = round3(ct_sample.alt_diff)
        /\ ct_result.az_diff = round3(ct_sample.az_diff)
        /\ ct_result.alt_diff <= GATE_DEG * DEG
        /\ ct_result.az_diff <= GATE_DEG * DEG
        /\ ct_result.plane_alt >= 0

C10_Witness ==
    /\ ct_pc = "done"
    /\ ct_result.is_possible_transit = 1
    /\ ct_sample.idx > 0
    /\ ct_result.possibility_level = LOW

\* the targets a call asks for, and their altitude at the reference instant
RequestedSet ==
    { RequestedTargets(gt_target_name)[i] :
        i \in 1..Len(RequestedTargets(gt_target_name)) }
AltitudeAtRef(n) == update_position(gt_sky[n], 0).alt
TrackingSet ==
    { gt_result.trackingTargets[i] : i \in 1..Len(gt_result.trackingTargets) }

\* what C7 says of the targets outside the trackable set: all requested
\* targets have coordinates, and a target that is not trackable has no
\* candidate
C7_Reported ==
    /\ DOMAIN gt_result.targetCoordinates = RequestedSet
    /\ \A n \in RequestedSet \ TrackingSet :
         \A i \in 1..Len(gt_result.flights) : gt_result.flights[i].target # n

C11_NoGatedSample ==
    (ct_pc = "done" /\ ct_seen.gated = None) =>
        /\ ct_result.is_possible_transit = 0
        /\ ct_result.possibility_level = UNLIKELY
        /\ ct_result.time = None
        /\ ct_result.plane_alt = round2(CurrentAltAz.alt)
        /\ ct_result.plane_az = round2(CurrentAltAz.az)
        /\ ct_result.alt_diff = round3(Abs(CurrentAltAz.alt - ct_initial.alt))
        /\ ct_result.az_diff = round3(Abs(CurrentAltAz.az - ct_initial.az))

\* an aircraft 90 degrees of azimuth from the target, recorded at a later
\* sample and returned with its current position
C11_Witness ==
    /\ ct_pc = "done"
    /\ ct_seen.gated = None
    /\ ct_sample.idx # None
    /\ ct_sample.idx > 0
    /\ ct_result.az_diff >= 89 * DEG
    /\ ct_result.az_diff <= 90 * DEG
    /\ ct_result.time = None

\* C12 as claimed: when some compared sample had the aircraft above the
\* horizon within the gate, the returned candidate is a possible transit
\* whose tier is at least the tier of that sample.
C12_GatedSampleReported ==
    (ct_pc = "done" /\ ct_seen.gated # None) =>
        /\ ct_result.is_possible_transit = 1
        /\ ct_result.possibility_level >= ct_seen.gated

\* C13 as claimed: when one sample of the window alone has the least
\* separation, the minimum the scan ends with, early exit included, is the
\* minimum of the whole window.
C13_EarlyExitFindsMinimum ==
    LET full == FullScan(ct_flight, ct_ephemeris, ct_window, 0, ct_window.n - 1)
    IN  (ct_pc = "done" /\ full.count = 1) => ct_min = full.min

InsideBBox(latitude, longitude, bbox) ==
    /\ bbox[1] <= latitude /\ latitude <= bbox[3]
    /\ bbox[2] <= longitude /\ longitude <= bbox[4]

FetchesOfRequest == gt_fetches - rq_work.fetches

C18_MissingCoordinatesRejected ==
    (rq_request.route # "none" /\
        (rq_request.latitude = None \/ rq_request.longitude = None)) =>
        /\ rq_pc = "answered"
        /\ rq_response.error
        /\ rq_response.status >= 400
        /\ rq_work.lookups = 0
        /\ FetchesOfRequest = 0
        /\ gt_pc = "off"
        /\ ct_pc = "off"

TierOf(c) == get_possibility_level(calculate_angular_separation(c.alt_diff, c.az_diff))

\* C21: in the list sort_results returns, among the candidates with
\* is_possible_transit = 1 no candidate of a lower tier comes before a
\* candidate of a higher tier.
C21_HigherTierFirst ==
    so_pc = "done" =>
        \A i \in 1..Len(so_result), j \in 1..Len(so_result) :
            (/\ i < j
             /\ so_result[i].is_possible_transit = 1
             /\ so_result[j].is_possible_transit = 1)
            => TierOf(so_result[i]) >= TierOf(so_result[j])

\* the target's position at the sample the returned candidate was recorded at
TargetAtRecorded == TargetAt(ct_ephemeris, ct_window, ct_sample.idx)

\* C22 as claimed: in a candidate with is_possible_transit = 1 target_alt
\* and target_az are the target's altitude and azimuth at the recorded
\* sample, and the recorded differences are those of the recorded
\* positions, to the hundredth of a degree the positions are rounded to.
C22_TargetAtClosestApproach ==
    (ct_pc = "done" /\ ct_result.is_possible_transit = 1) =>
        /\ ct_result.target_alt = round2(TargetAtRecorded.alt)
        /\ ct_result.target_az = round2(TargetAtRecorded.az)
        /\ Abs(ct_result.alt_diff - Abs(ct_result.plane_alt - ct_result.target_alt))
               <= CENTI
        /\ Abs(ct_result.az_diff - Abs(ct_result.plane_az - ct_result.target_az))
               <= CENTI

\* C23: every candidate check_transit returns with possibility_level = HIGH
\* has alt_diff <= 1 degree and az_diff <= 1 degree.
C23_HighWithinOneDegree ==
    (ct_pc = "done" /\ ct_result.possibility_level = HIGH) =>
        /\ ct_result.alt_diff <= HIGH_MAX_DEG * DEG
        /\ ct_result.az_diff <= HIGH_MAX_DEG * DEG

\* a HIGH candidate recorded minutes ahead, the target having moved
C23_Witness ==
    /\ ct_pc = "done"
    /\ ct_result.possibility_level = HIGH
    /\ ct_result.is_possible_transit = 1
    /\ ct_sample.idx >= TARGET_REFRESH
    /\ ct_ephemeris.dalt # 0

\* calculate_ground_truth_separation: the azimuth difference, taken the
\* short way round
ground_truth_az_diff(aircraft_az, target_az) ==
    LET az_diff == Abs(aircraft_az - target_az)
    IN  IF az_diff > 180 * DEG THEN FULL_CIRCLE - az_diff ELSE az_diff

\* C24 as claimed: the azimuth difference check_transit uses for a sample is
\* the difference of the two azimuths taken the short way round 0/360, so
\* it never exceeds 180 degrees.
C24_AzimuthWraps ==
    ct_sample.idx # None =>
        /\ ct_sample.az_diff =
               ground_truth_az_diff(
                   plane_altaz(ct_flight, ct_window, ct_sample.idx).az,
                   TargetAt(ct_ephemeris, ct_window, ct_sample.idx).az)
        /\ ct_sample.az_diff <= 180 * DEG

\* the separation of the sample the returned candidate was recorded at
RecordedSep == calculate_angular_separation(ct_sample.alt_diff, ct_sample.az_diff)

\* C25 as claimed: when the scan stops, the differences and the time of a
\* positive candidate are those of the sample with the smallest separation
\* among all the samples compared, the earliest such sample on ties.
C25_RecordedIsMinimum ==
    (ct_pc = "done" /\ ct_result.is_possible_transit = 1) =>
        /\ ct_sample.idx # None
        /\ ct_result.alt_diff = round3(ct_sample.alt_diff)
        /\ ct_result.az_diff = round3(ct_sample.az_diff)
        /\ ct_result.time = RoundedMinute(ct_window, ct_sample.idx)
        /\ RecordedSep = SampleSep(ct_flight, ct_ephemeris, ct_window, ct_sample.idx)
        /\ \A i \in 0..(ct_idx - 1) :
             /\ SepLeq(RecordedSep, SampleSep(ct_flight, ct_ephemeris, ct_window, i))
             /\ i < ct_sample.idx =>
                    SepLess(RecordedSep,
                            SampleSep(ct_flight, ct_ephemeris, ct_window, i))


\* C26: the scan compares the samples in ascending order and never more
\* than the window holds; it stops exactly when 180 samples in a row have
\* not improved on the running minimum, the counter counts the samples
\* compared since the last improving one, which holds the minimum, and
\* what is returned was recorded before the scan stopped
C26_EarlyExit ==
    ct_pc \in { "loop", "exit", "done" } =>
        /\ ct_idx <= ct_window.n
        /\ ct_count <= NO_DECREASE_LIMIT
        /\ ct_count <= ct_idx
        /\ ct_pc = "exit" => (ct_count = NO_DECREASE_LIMIT /\ ct_idx < ct_window.n)
        /\ (ct_pc = "done" /\ ct_count < NO_DECREASE_LIMIT) => ct_idx = ct_window.n
        /\ \A i \in (ct_idx - ct_count)..(ct_idx - 1) :
              SepLeq(ct_min, SampleSep(ct_flight, ct_ephemeris, ct_window, i))
        /\ ct_count < ct_idx =>
              ct_min = SampleSep(ct_flight, ct_ephemeris, ct_window,
                                 ct_idx - ct_count - 1)
        /\ (ct_count = ct_idx /\ ct_idx > 0) =>
              (ct_test_mode /\ ct_min = SampleSep(ct_flight, ct_ephemeris, ct_window, 0))
        /\ ct_sample.idx # None => ct_sample.idx < ct_idx \/ ct_sample.idx = 0

\* the scan stopped early after an improving sample had reset the counter
C26_Witness ==
    /\ ct_pc = "done"
    /\ ct_count = NO_DECREASE_LIMIT
    /\ ct_idx > NO_DECREASE_LIMIT
    /\ ct_idx < ct_window.n
    /\ ct_result.is_possible_transit = 1

\* C27: over the default window every sample that has been compared was
\* compared against the target as positioned at the whole minute of the
\* sample's offset: the target is re-read whenever the offset reaches a
\* new whole minute and keeps its position in between
C27_RefreshedOnTheMinute ==
    (ct_pc = "loop" /\ ct_window = window_time /\ ct_idx > 0) =>
        ct_target = update_position(ct_ephemeris, IntMinute(ct_window, ct_idx - 1))

C29_BoundedSize == Cardinality(DOMAIN fc_cache) <= MAX_CACHE_SIZE

\* C30: a candidate returned by check_transit has no time exactly when it
\* is not a possible transit, so every HIGH or MEDIUM candidate carries the
\* minutes to its closest approach
C30_TimeIffPossible ==
    ct_pc = "done" =>
        /\ ct_result.time = None <=> ct_result.is_possible_transit = 0
        /\ ct_result.time # None =>
              (ct_result.time >= 0 /\ ct_result.time <= ct_window.span * MINUTE)
        /\ ct_result.possibility_level \in { HIGH, MEDIUM } =>
              (ct_result.is_possible_transit = 1 /\ ct_result.time # None)

\* a MEDIUM candidate minutes ahead was returned
C30_Witness ==
    /\ ct_pc = "done"
    /\ ct_result.possibility_level = MEDIUM
    /\ ct_result.time > MINUTE
=========================================================================
